---- MODULE Spec2Model ----
(***************************************************************************)
(* Model of the in-memory data cache of src/src/contexts/DataCacheContext  *)
(* .jsx: a Map from key to {data, expiresAt, createdAt} (cacheRef) and an  *)
(* array of keys in access order (accessOrderRef), with TTL expiry, LRU    *)
(* eviction and wildcard invalidation.                                     *)
(*                                                                         *)
(* Keys and patterns are strings, modelled as sequences of one-character   *)
(* strings so that the RegExp built by invalidateCache can be evaluated.   *)
(* Date.now() is the variable now; time passes between operations (Tick),  *)
(* never inside one (no store operation suspends).  The createdAt field of *)
(* an entry is written by setCache and read nowhere in the source; entries *)
(* are modelled by the two fields that are read, data and expiresAt.       *)
(*                                                                         *)
(* Spec is the store used through useDataCache.  SpecFetch is one          *)
(* component that calls useCachedFetch over the store: its renders, the    *)
(* initial-fetch effect, refetch() and the settling of the fetch calls in  *)
(* flight.  SpecFailing is that component with a producer that always      *)
(* fails, under fair scheduling.  SpecEffects is a component all of whose   *)
(* fetch cycles are non-forced.  SpecLife is the provider and one          *)
(* component from before the mount to after the teardown of both, with the *)
(* provider's cleanup timer.  SpecInstant is SpecFetch with no time        *)
(* passing inside a fetch cycle.  SpecAuth is the AuthProvider of          *)
(* src/src/contexts/AuthContext.jsx: session restore, signIn, signOut and  *)
(* the Google callback and renders with a new allowedDomains prop.         *)
(***************************************************************************)
EXTENDS Integers, Sequences, FiniteSets

\* ---------------------------------------------------------------- bounds
\* Largest capacity (the maxEntries prop) a provider is configured with.
MaxCap == 2
\* Last value of the clock.
MaxTime == 1

\* ---------------------------------------------------------------- inputs
\* Characters of keys; "*" is the wildcard of patterns.
KeyChars == {"a", ".", "\n"}
Star == "*"

\* The keys callers use.
Keys == { <<"a", ".">>, <<"a", "a">>, <<"\n">> }

\* The payloads callers store (JSON numbers).
Values == {1, 2}

\* The ttls callers pass to setCache: none and one tick of the clock.
TTLs == {0, 1}

\* The patterns callers pass to invalidateCache: the keys and a string that is
\* no key ("a"), and the wildcard alone, after a prefix of the keys ("a*"),
\* after a "." and after a "(", which opens a group in a regular expression.
Patterns ==
    Keys \cup { <<"a">>, <<Star>>, <<"a", Star>>, <<".", Star>>, <<"(", Star>> }

\* getCache's null return value.
Null == -1

\* ---------------------------------------------------------------- state
VARIABLES
    maxEntries,   \* the provider's maxEntries prop
    cache,        \* cacheRef.current: function from the present keys to entries
    accessOrder,  \* accessOrderRef.current: sequence of keys, most recent last
    now,          \* Date.now()
    last,         \* observation: the last operation, its arguments and result
    recency,      \* observation: present keys by time of last set / fresh get
    everSet,      \* observation: the keys setCache was ever called with
    props,        \* useCachedFetch: the url and options of the latest render
    hook,         \* useCachedFetch: the useState cells data, isLoading, error, isStale,
                  \* as the latest calls of their setters leave them
    inflight,     \* useCachedFetch: the fetch calls that have not settled yet
    dirty,        \* useCachedFetch: a state cell changed since the latest render
    effectPending, \* useCachedFetch: the initial-fetch effect is due to run
    provider,     \* DataCacheProvider: "mounted", "unmounted" or "none" (not in the tree)
    interval,     \* DataCacheProvider: the setInterval of the cleanup effect is armed
    mounted,      \* useCachedFetch: the component that calls it is mounted
    auth          \* AuthProvider: its useState cells, its allowedDomains prop,
                  \* localStorage's auth_user item, the session effect being due

\* The variables of a useCachedFetch instance.
fvars == <<props, hook, inflight, dirty, effectPending>>

\* The lifecycle of the provider and of the component.
lvars == <<provider, interval, mounted>>

vars == <<maxEntries, cache, accessOrder, now, last, recency, everSet, fvars, lvars,
         auth>>

\* ------------------------------------------------------- helper operators
\* Map.prototype.delete
MapDelete(c, k) == [x \in (DOMAIN c) \ {k} |-> c[x]]

\* Map.prototype.set
MapSet(c, k, e) == [x \in (DOMAIN c) \cup {k} |-> IF x = k THEN e ELSE c[x]]

\* accessOrderRef.current.filter(k => k !== key)
FilterKey(o, k) == SelectSeq(o, LAMBDA x : x # k)

\* number of occurrences of k in the sequence o
Count(o, k) == Cardinality({i \in 1..Len(o) : o[i] = k})

SeqSet(o) == {o[i] : i \in 1..Len(o)}

\* JSON.stringify(n).length for a non-negative integer n
RECURSIVE JsonStringifyLength(_)
JsonStringifyLength(n) == IF n < 10 THEN 1 ELSE 1 + JsonStringifyLength(n \div 10)

\* ------------------------------------------------------------ getCache
\* Mutant: the expiry check is missing, an expired entry is served.
getCacheNoExpiry(c, o, t, k) ==
    IF k \notin DOMAIN c
    THEN [cache |-> c, order |-> o, ret |-> Null]
    ELSE [cache |-> c, order |-> Append(FilterKey(o, k), k), ret |-> c[k].data]

\* Mutant: the expired entry is deleted from the Map but stays in the ledger.
getCacheKeepLedger(c, o, t, k) ==
    IF k \notin DOMAIN c
    THEN [cache |-> c, order |-> o, ret |-> Null]
    ELSE IF t > c[k].expiresAt
         THEN [cache |-> MapDelete(c, k), order |-> o, ret |-> Null]
         ELSE [cache |-> c, order |-> Append(FilterKey(o, k), k), ret |-> c[k].data]

\* Mutant: a fresh read does not promote the key.
getCacheNoPromote(c, o, t, k) ==
    IF k \notin DOMAIN c
    THEN [cache |-> c, order |-> o, ret |-> Null]
    ELSE IF t > c[k].expiresAt
         THEN [cache |-> MapDelete(c, k), order |-> FilterKey(o, k), ret |-> Null]
         ELSE [cache |-> c, order |-> o, ret |-> c[k].data]

\* Mutant: an expired entry is reported absent but not removed.
getCacheNoRemove(c, o, t, k) ==
    IF k \notin DOMAIN c
    THEN [cache |-> c, order |-> o, ret |-> Null]
    ELSE IF t > c[k].expiresAt
         THEN [cache |-> c, order |-> o, ret |-> Null]
         ELSE [cache |-> c, order |-> Append(FilterKey(o, k), k), ret |-> c[k].data]

\* Mutant: a fresh read puts the key at the head of the ledger (unshift for
\* push).
getCachePromoteToHead(c, o, t, k) ==
    IF k \notin DOMAIN c
    THEN [cache |-> c, order |-> o, ret |-> Null]
    ELSE IF t > c[k].expiresAt
         THEN [cache |-> MapDelete(c, k), order |-> FilterKey(o, k), ret |-> Null]
         ELSE [cache |-> c, order |-> <<k>> \o FilterKey(o, k), ret |-> c[k].data]

getCache(c, o, t, k) ==
    IF k \notin DOMAIN c
    THEN [cache |-> c, order |-> o, ret |-> Null]
    ELSE IF t > c[k].expiresAt
         THEN [cache |-> MapDelete(c, k), order |-> FilterKey(o, k), ret |-> Null]
         ELSE [cache |-> c, order |-> Append(FilterKey(o, k), k), ret |-> c[k].data]

\* ------------------------------------------------------ hasCache, isStale
\* Mutant: hasCache probes through getCache (lazy expiry and promotion).
hasCacheViaGet(c, o, t, k) ==
    [cache |-> getCache(c, o, t, k).cache,
     order |-> getCache(c, o, t, k).order,
     ret   |-> (k \in DOMAIN c /\ t <= c[k].expiresAt)]

\* Mutant: an entry is fresh only strictly before its expiry.
hasCacheStrict(c, o, t, k) ==
    [cache |-> c, order |-> o,
     ret   |-> (k \in DOMAIN c /\ t < c[k].expiresAt)]

hasCache(c, o, t, k) ==
    [cache |-> c, order |-> o,
     ret   |-> (k \in DOMAIN c /\ t <= c[k].expiresAt)]

isStale(c, o, t, k) ==
    [cache |-> c, order |-> o,
     ret   |-> (k \in DOMAIN c /\ t > c[k].expiresAt)]

\* ------------------------------------------------------------ setCache
\* The while loop of setCache: evict the head of the ledger while the Map is
\* at or above capacity and the ledger is non-empty.
RECURSIVE EvictLoop(_, _, _)
EvictLoop(c, o, m) ==
    IF Cardinality(DOMAIN c) >= m /\ Len(o) > 0
    THEN EvictLoop(MapDelete(c, Head(o)), Tail(o), m)
    ELSE [cache |-> c, order |-> o]

\* The ttl argument of a call of setCache that passes none.
Undefined == -3

\* The defaultTTL prop of the provider: one tick of the clock.
defaultTTL == 1

\* The default parameter ttl = defaultTTL of setCache.
EffectiveTtl(ttl) == IF ttl = Undefined THEN defaultTTL ELSE ttl

\* Mutant: the eviction loop runs after the entry is stored and promoted.
setCacheEvictAfter(c, o, t, m, k, d, ttl) ==
    LET s == MapSet(c, k, [data |-> d, expiresAt |-> t + EffectiveTtl(ttl)])
        e == EvictLoop(s, Append(FilterKey(o, k), k), m)
    IN  [cache |-> e.cache, order |-> e.order, ret |-> Null]

\* Mutant: a call without ttl stores an entry that expires at once (the
\* default parameter is missing).
setCacheNoDefault(c, o, t, m, k, d, ttl) ==
    LET e == EvictLoop(c, o, m)
        eff == IF ttl = Undefined THEN 0 ELSE ttl
    IN  [cache |-> MapSet(e.cache, k, [data |-> d, expiresAt |-> t + eff]),
         order |-> Append(FilterKey(e.order, k), k),
         ret   |-> Null]

setCache(c, o, t, m, k, d, ttl) ==
    LET e == EvictLoop(c, o, m)
    IN  [cache |-> MapSet(e.cache, k, [data |-> d,
                                       expiresAt |-> t + EffectiveTtl(ttl)]),
         order |-> Append(FilterKey(e.order, k), k),
         ret   |-> Null]

\* ------------------------------------------------------- invalidateCache
\* pattern.includes('*')
HasStar(p) == \E i \in 1..Len(p) : p[i] = Star

\* pattern.replace(/\*/g, '.*'): every "*" becomes the two characters ".*"
RECURSIVE ReplaceStar(_)
ReplaceStar(p) ==
    IF p = <<>> THEN <<>>
    ELSE (IF Head(p) = Star THEN <<".", "*">> ELSE <<Head(p)>>) \o ReplaceStar(Tail(p))

\* the source of the RegExp: '^' + pattern.replace(/\*/g, '.*') + '$'
RegexSource(p) == <<"^">> \o ReplaceStar(p) \o <<"$">>

\* Line terminators: the characters "." does not match (no s flag).
LineTerminators == {"\n"}

\* One regular-expression atom against one character: "." matches every
\* character but a line terminator, every other character matches itself.
AtomMatches(a, ch) == IF a = "." THEN ch \notin LineTerminators ELSE a = ch

\* Does the regular expression src, read from position i, match key from
\* position j on?  "^" and "$" are assertions (no m flag: start and end of the
\* whole string), an atom followed by "*" repeats zero or more times.
RECURSIVE RegexMatchAt(_, _, _, _)
RegexMatchAt(src, i, key, j) ==
    IF i > Len(src) THEN TRUE
    ELSE IF src[i] = "^" THEN j = 1 /\ RegexMatchAt(src, i + 1, key, j)
    ELSE IF src[i] = "$" THEN j = Len(key) + 1 /\ RegexMatchAt(src, i + 1, key, j)
    ELSE IF i < Len(src) /\ src[i + 1] = "*"
         THEN \E n \in 0..(Len(key) + 1 - j) :
                 /\ \A x \in j..(j + n - 1) : AtomMatches(src[i], key[x])
                 /\ RegexMatchAt(src, i + 2, key, j + n)
         ELSE /\ j <= Len(key)
              /\ AtomMatches(src[i], key[j])
              /\ RegexMatchAt(src, i + 1, key, j + 1)

\* regex.test(key): a match starting at any position of key
RegexTest(src, key) == \E j \in 1..(Len(key) + 1) : RegexMatchAt(src, 1, key, j)

\* new RegExp(src) succeeds: a "(" that no ")" closes is an unterminated group
\* and makes the constructor throw a SyntaxError (patterns here hold no ")").
RegexCompiles(src) == \A i \in 1..Len(src) : src[i] # "("

\* threw: the call ended with an exception instead of a return value.
\* Mutant: the exact branch deletes the key from the Map, not from the ledger.
invalidateCacheExactKeepLedger(c, o, p) ==
    IF HasStar(p)
    THEN IF ~RegexCompiles(RegexSource(p))
         THEN [cache |-> c, order |-> o, ret |-> Null, threw |-> TRUE]
         ELSE LET keysToDelete == {k \in DOMAIN c : RegexTest(RegexSource(p), k)}
              IN  [cache |-> [x \in (DOMAIN c) \ keysToDelete |-> c[x]],
                   order |-> SelectSeq(o, LAMBDA x : x \notin keysToDelete),
                   ret   |-> Cardinality(keysToDelete),
                   threw |-> FALSE]
    ELSE [cache |-> MapDelete(c, p),
          order |-> o,
          ret   |-> IF p \in DOMAIN c THEN 1 ELSE 0,
          threw |-> FALSE]

invalidateCache(c, o, p) ==
    IF HasStar(p)
    THEN IF ~RegexCompiles(RegexSource(p))
         THEN [cache |-> c, order |-> o, ret |-> Null, threw |-> TRUE]
         ELSE LET keysToDelete == {k \in DOMAIN c : RegexTest(RegexSource(p), k)}
              IN  [cache |-> [x \in (DOMAIN c) \ keysToDelete |-> c[x]],
                   order |-> SelectSeq(o, LAMBDA x : x \notin keysToDelete),
                   ret   |-> Cardinality(keysToDelete),
                   threw |-> FALSE]
    ELSE [cache |-> MapDelete(c, p),
          order |-> FilterKey(o, p),
          ret   |-> IF p \in DOMAIN c THEN 1 ELSE 0,
          threw |-> FALSE]

\* ------------------------------------------------------------ clearCache
\* Mutant: the size is read after the Map has been cleared.
clearCacheCountAfter(c, o) ==
    [cache |-> [x \in {} |-> 0], order |-> <<>>, ret |-> 0]

clearCache(c, o) ==
    [cache |-> [x \in {} |-> 0], order |-> <<>>, ret |-> Cardinality(DOMAIN c)]

\* --------------------------------------------------------- getCacheStats
RECURSIVE SumSizes(_, _)
SumSizes(c, ks) ==
    IF ks = {} THEN 0
    ELSE LET k == CHOOSE x \in ks : TRUE
         IN  JsonStringifyLength(c[k].data) + SumSizes(c, ks \ {k})

\* Mutant: an entry that expires at this very time is counted as expired.
getCacheStatsAtExpiry(c, o, t, m) ==
    LET expiredCount == Cardinality({k \in DOMAIN c : t >= c[k].expiresAt})
    IN  [cache |-> c, order |-> o,
         ret   |-> [totalEntries       |-> Cardinality(DOMAIN c),
                    expiredEntries     |-> expiredCount,
                    activeEntries      |-> Cardinality(DOMAIN c) - expiredCount,
                    estimatedSizeBytes |-> SumSizes(c, DOMAIN c),
                    maxEntries         |-> m]]

getCacheStats(c, o, t, m) ==
    LET expiredCount == Cardinality({k \in DOMAIN c : t > c[k].expiresAt})
    IN  [cache |-> c, order |-> o,
         ret   |-> [totalEntries       |-> Cardinality(DOMAIN c),
                    expiredEntries     |-> expiredCount,
                    activeEntries      |-> Cardinality(DOMAIN c) - expiredCount,
                    estimatedSizeBytes |-> SumSizes(c, DOMAIN c),
                    maxEntries         |-> m]]

\* -------------------------------------------------------- cleanupExpired
\* Mutant: the sweep also removes the entries that expire at this very time.
cleanupExpiredAtExpiry(c, o, t) ==
    LET expired == {k \in DOMAIN c : t >= c[k].expiresAt}
    IN  [cache |-> [x \in (DOMAIN c) \ expired |-> c[x]],
         order |-> SelectSeq(o, LAMBDA x : x \notin expired),
         ret   |-> Cardinality(expired)]

cleanupExpired(c, o, t) ==
    LET expired == {k \in DOMAIN c : t > c[k].expiresAt}
    IN  [cache |-> [x \in (DOMAIN c) \ expired |-> c[x]],
         order |-> SelectSeq(o, LAMBDA x : x \notin expired),
         ret   |-> Cardinality(expired)]

\* ------------------------------------------------------------ observation
\* The observation variables record what a caller sees and what the claims
\* speak of; no operation of the store reads them.
NoKey == <<>>

\* last: op, its arguments (key; data; ttl; for invalidate, in place of the
\* pattern, ok tells whether the pattern holds a wildcard), its result (ret: a
\* value, Null or a count; ok: a boolean result), whether the key was in the
\* Map before the call (hit), the keys the call removed from the Map and
\* whether the call threw.
Observed(op, key, d, ttl, ret, ok, c2) ==
    [op |-> op, key |-> key, data |-> d, ttl |-> ttl,
     ret |-> ret, ok |-> ok, hit |-> (key \in DOMAIN cache),
     removed |-> (DOMAIN cache) \ (DOMAIN c2), threw |-> FALSE]

\* recency: the keys of the Map ordered by the time of their most recent set
\* or fresh get, oldest first; touch is the key this call accessed, or NoKey.
Touched(touch, c2) ==
    SelectSeq(IF touch = NoKey THEN recency ELSE Append(FilterKey(recency, touch), touch),
              LAMBDA x : x \in DOMAIN c2)

\* ---------------------------------------------------------------- actions
\* The store used through useDataCache alone: no component calls
\* useCachedFetch.
NoFetch ==
    /\ props = <<>>
    /\ hook = <<>>
    /\ inflight = <<>>
    /\ dirty = FALSE
    /\ effectPending = FALSE
    /\ mounted = FALSE

\* The provider is mounted and its cleanup effect has armed the timer.
ProviderMounted ==
    /\ provider = "mounted"
    /\ interval = TRUE

\* No AuthProvider is part of the system.
NoAuth == auth = <<>>

Init ==
    /\ \E i \in 0..MaxCap : maxEntries = MaxCap - i
    /\ cache = [x \in {} |-> 0]
    /\ accessOrder = <<>>
    /\ now = 0
    /\ last = [op |-> "init", key |-> NoKey, data |-> Null, ttl |-> 0,
               ret |-> Null, ok |-> FALSE, hit |-> FALSE, removed |-> {},
                threw |-> FALSE]
    /\ recency = <<>>
    /\ everSet = {}
    /\ NoFetch
    /\ ProviderMounted
    /\ NoAuth

\* Time passes between two operations.
Tick ==
    /\ now < MaxTime
    /\ now' = now + 1
    /\ last' = [op |-> "tick", key |-> NoKey, data |-> Null, ttl |-> 0,
                ret |-> Null, ok |-> FALSE, hit |-> FALSE, removed |-> {},
                threw |-> FALSE]
    /\ UNCHANGED <<maxEntries, cache, accessOrder, recency, everSet>>
    /\ UNCHANGED <<fvars, lvars, auth>>

Get(k) ==
    LET r == getCache(cache, accessOrder, now, k)
        fresh == k \in DOMAIN cache /\ now <= cache[k].expiresAt
    IN  /\ cache' = r.cache
        /\ accessOrder' = r.order
        /\ last' = Observed("get", k, Null, 0, r.ret, FALSE, r.cache)
        /\ recency' = Touched(IF fresh THEN k ELSE NoKey, r.cache)
        /\ UNCHANGED <<maxEntries, now, everSet>>
        /\ UNCHANGED <<fvars, lvars, auth>>

Has(k) ==
    LET r == hasCache(cache, accessOrder, now, k)
    IN  /\ cache' = r.cache
        /\ accessOrder' = r.order
        /\ last' = Observed("has", k, Null, 0, Null, r.ret, r.cache)
        /\ recency' = Touched(NoKey, r.cache)
        /\ UNCHANGED <<maxEntries, now, everSet>>
        /\ UNCHANGED <<fvars, lvars, auth>>

IsStale(k) ==
    LET r == isStale(cache, accessOrder, now, k)
    IN  /\ cache' = r.cache
        /\ accessOrder' = r.order
        /\ last' = Observed("isStale", k, Null, 0, Null, r.ret, r.cache)
        /\ recency' = Touched(NoKey, r.cache)
        /\ UNCHANGED <<maxEntries, now, everSet>>
        /\ UNCHANGED <<fvars, lvars, auth>>

Set(k, d, ttl) ==
    LET r == setCache(cache, accessOrder, now, maxEntries, k, d, ttl)
    IN  /\ cache' = r.cache
        /\ accessOrder' = r.order
        /\ last' = Observed("set", k, d, ttl, Null, FALSE, r.cache)
        /\ recency' = Touched(k, r.cache)
        /\ everSet' = everSet \cup {k}
        /\ UNCHANGED <<maxEntries, now>>
        /\ UNCHANGED <<fvars, lvars, auth>>

\* setCache(k, d): the caller passes no ttl.  In last, ok tells that the ttl
\* was left out and ttl is the one the entry was given.
SetDefault(k, d) ==
    LET r == setCache(cache, accessOrder, now, maxEntries, k, d, Undefined)
    IN  /\ cache' = r.cache
        /\ accessOrder' = r.order
        /\ last' = Observed("set", k, d, EffectiveTtl(Undefined), Null, TRUE, r.cache)
        /\ recency' = Touched(k, r.cache)
        /\ everSet' = everSet \cup {k}
        /\ UNCHANGED <<maxEntries, now>>
        /\ UNCHANGED <<fvars, lvars, auth>>

Invalidate(p) ==
    LET r == invalidateCache(cache, accessOrder, p)
    IN  /\ cache' = r.cache
        /\ accessOrder' = r.order
        /\ last' = [Observed("invalidate", NoKey, Null, 0, r.ret, HasStar(p), r.cache)
                       EXCEPT !.threw = r.threw]
        /\ recency' = Touched(NoKey, r.cache)
        /\ UNCHANGED <<maxEntries, now, everSet>>
        /\ UNCHANGED <<fvars, lvars, auth>>

Clear ==
    LET r == clearCache(cache, accessOrder)
    IN  /\ cache' = r.cache
        /\ accessOrder' = r.order
        /\ last' = Observed("clear", NoKey, Null, 0, r.ret, FALSE, r.cache)
        /\ recency' = Touched(NoKey, r.cache)
        /\ UNCHANGED <<maxEntries, now, everSet>>
        /\ UNCHANGED <<fvars, lvars, auth>>

Stats ==
    LET r == getCacheStats(cache, accessOrder, now, maxEntries)
    IN  /\ cache' = r.cache
        /\ accessOrder' = r.order
        /\ last' = Observed("stats", NoKey, Null, 0, r.ret.totalEntries, FALSE, r.cache)
        /\ recency' = Touched(NoKey, r.cache)
        /\ UNCHANGED <<maxEntries, now, everSet>>
        /\ UNCHANGED <<fvars, lvars, auth>>

CleanupExpired ==
    LET r == cleanupExpired(cache, accessOrder, now)
    IN  /\ cache' = r.cache
        /\ accessOrder' = r.order
        /\ last' = Observed("cleanupExpired", NoKey, Null, 0, r.ret, FALSE, r.cache)
        /\ recency' = Touched(NoKey, r.cache)
        /\ UNCHANGED <<maxEntries, now, everSet>>
        /\ UNCHANGED <<fvars, lvars, auth>>

DoGet == \E k \in Keys : Get(k)
DoHas == \E k \in Keys : Has(k)
DoIsStale == \E k \in Keys : IsStale(k)
DoSet == \E k \in Keys, d \in Values, ttl \in TTLs : Set(k, d, ttl)
DoSetDefault == \E k \in Keys, d \in Values : SetDefault(k, d)
DoInvalidate == \E p \in Patterns : Invalidate(p)

Next ==
    \/ Tick
    \/ DoGet
    \/ DoHas
    \/ DoIsStale
    \/ DoSet
    \/ DoSetDefault
    \/ DoInvalidate
    \/ Clear
    \/ Stats
    \/ CleanupExpired

Spec == Init /\ [][Next]_vars

\* ========================================================== useCachedFetch
\* One component that calls useCachedFetch(url, options) under the provider.
\* A producer call (fetch, then response.json()) is in flight from the moment
\* fetchData suspends at its await until SettleOk or SettleFail resumes it.

\* Most producer calls of one component in flight at a time.
MaxInFlight == 2

\* The urls the component is rendered with (keys of the store).
Urls == { <<"a", ".">>, <<"a", "a">> }

\* The url of the first render.
FirstUrl == <<"a", ".">>

\* The falsy url: fetchData returns at once for it.
NoUrl == <<>>

\* The JSON bodies the producer resolves to: two numbers and null, which
\* response.json() returns as the null that getCache also returns for a key
\* without fresh entry.
Bodies == {1, 2, Null}

\* The Error a failed cycle catches.
Failure == -2

\* The options a component passes: ttl and refetchOnStale, and either no
\* transform and no fetchOptions, so that the defaults (data) => data and {}
\* are new objects at every render (stable is FALSE), or a transform of its
\* own, here (data) => data.valueOf() + 2, and fetchOptions that it keeps the same
\* objects over all renders (stable is TRUE).
Options ==
    {[ttl |-> t, refetchOnStale |-> r, transform |-> "identity", stable |-> FALSE]
        : t \in TTLs, r \in BOOLEAN}
    \cup
    {[ttl |-> t, refetchOnStale |-> r, transform |-> "custom", stable |-> TRUE]
        : t \in TTLs, r \in BOOLEAN}

\* The body on which a transform of the component's own throws: null.
BadBody == Null

\* transform(json) throws: (data) => data.valueOf() + 2 on the body null.
TransformThrows(tr, json) == tr = "custom" /\ json = BadBody

\* transform(json)
ApplyTransform(tr, json) == IF tr = "identity" THEN json ELSE json + 2

\* useState(null), useState(true), useState(null), useState(false)
InitialHook ==
    [data |-> Null, isLoading |-> TRUE, error |-> Null, isStale |-> FALSE]

\* Mutant: starting a producer call leaves isLoading as it is.
StartFetchKeepsLoading(h, fl, p) ==
    [hook     |-> [h EXCEPT !.error = Null],
     inflight |-> Append(fl, [url |-> p.url, ttl |-> p.ttl,
                              transform |-> p.transform, failedSince |-> FALSE,
                              responded |-> FALSE])]

\* fetchData from line 256 to the await of line 259: the closure p of the
\* call (url, ttl, transform) stays with the call in flight.  failedSince is
\* an observation: another cycle of the component failed since this call
\* started.  responded: the await of line 259 has resumed with an OK response
\* and the call waits at the await of line 265 for the body.
StartFetch(h, fl, p) ==
    [hook     |-> [h EXCEPT !.isLoading = TRUE, !.error = Null],
     inflight |-> Append(fl, [url |-> p.url, ttl |-> p.ttl,
                              transform |-> p.transform, failedSince |-> FALSE,
                              responded |-> FALSE])]

\* fetchData(skipCache) up to its return or its first await, for the closure
\* p, on the store (c, o).  t is Date.now() inside getCache (line 242), t2
\* inside the checkStale of line 246, whose result goes to the isStale cell,
\* and t3 inside the checkStale of line 249, which decides the background
\* fetch.  The return of line 252 runs the finally block, after the
\* background fetchData(true) of line 250 has run up to its await.
\* Mutant: a cycle of a disabled component, or of one without url, also
\* clears the data shown.
fetchDataDisabledClearsData(c, o, t, t2, t3, p, h, fl, skipCache) ==
    IF ~p.enabled \/ p.url = NoUrl
    THEN [cache |-> c, order |-> o,
          hook |-> [h EXCEPT !.data = Null, !.isLoading = FALSE],
          inflight |-> fl]
    ELSE LET g == getCache(c, o, t, p.url)
         IN  IF ~skipCache /\ g.ret # Null
             THEN LET st == isStale(g.cache, g.order, t2, p.url).ret
                      st2 == isStale(g.cache, g.order, t3, p.url).ret
                      h1 == [h EXCEPT !.data = g.ret, !.isLoading = FALSE,
                                      !.isStale = st]
                      b  == StartFetch(h1, fl, p)
                  IN  IF p.refetchOnStale /\ st2
                      THEN [cache |-> g.cache, order |-> g.order,
                            hook |-> [b.hook EXCEPT !.isLoading = FALSE],
                            inflight |-> b.inflight]
                      ELSE [cache |-> g.cache, order |-> g.order, hook |-> h1,
                            inflight |-> fl]
             ELSE LET b == StartFetch(h, fl, p)
                  IN  [cache |-> IF skipCache THEN c ELSE g.cache,
                       order |-> IF skipCache THEN o ELSE g.order,
                       hook |-> b.hook, inflight |-> b.inflight]

\* Mutant: a forced cycle looks the url up in the cache (and ignores the
\* result) before it calls the producer.
fetchDataForcedReadsCache(c, o, t, t2, t3, p, h, fl, skipCache) ==
    IF ~p.enabled \/ p.url = NoUrl
    THEN [cache |-> c, order |-> o, hook |-> [h EXCEPT !.isLoading = FALSE],
          inflight |-> fl]
    ELSE LET g == getCache(c, o, t, p.url)
         IN  IF ~skipCache /\ g.ret # Null
             THEN LET st == isStale(g.cache, g.order, t2, p.url).ret
                      st2 == isStale(g.cache, g.order, t3, p.url).ret
                      h1 == [h EXCEPT !.data = g.ret, !.isLoading = FALSE,
                                      !.isStale = st]
                      b  == StartFetch(h1, fl, p)
                  IN  IF p.refetchOnStale /\ st2
                      THEN [cache |-> g.cache, order |-> g.order,
                            hook |-> [b.hook EXCEPT !.isLoading = FALSE],
                            inflight |-> b.inflight]
                      ELSE [cache |-> g.cache, order |-> g.order, hook |-> h1,
                            inflight |-> fl]
             ELSE LET b == StartFetch(h, fl, p)
                  IN  [cache |-> g.cache, order |-> g.order,
                       hook |-> b.hook, inflight |-> b.inflight]

\* Mutant: a cache hit never starts the background fetch.
fetchDataNeverRevalidate(c, o, t, t2, t3, p, h, fl, skipCache) ==
    IF ~p.enabled \/ p.url = NoUrl
    THEN [cache |-> c, order |-> o, hook |-> [h EXCEPT !.isLoading = FALSE],
          inflight |-> fl]
    ELSE LET g == getCache(c, o, t, p.url)
         IN  IF ~skipCache /\ g.ret # Null
             THEN LET st == isStale(g.cache, g.order, t2, p.url).ret
                      h1 == [h EXCEPT !.data = g.ret, !.isLoading = FALSE,
                                      !.isStale = st]
                  IN  [cache |-> g.cache, order |-> g.order, hook |-> h1,
                       inflight |-> fl]
             ELSE LET b == StartFetch(h, fl, p)
                  IN  [cache |-> IF skipCache THEN c ELSE g.cache,
                       order |-> IF skipCache THEN o ELSE g.order,
                       hook |-> b.hook, inflight |-> b.inflight]

\* Mutant: a cache hit clears the error as a producer call does.
fetchDataHitClearsError(c, o, t, t2, t3, p, h, fl, skipCache) ==
    IF ~p.enabled \/ p.url = NoUrl
    THEN [cache |-> c, order |-> o, hook |-> [h EXCEPT !.isLoading = FALSE],
          inflight |-> fl]
    ELSE LET g == getCache(c, o, t, p.url)
         IN  IF ~skipCache /\ g.ret # Null
             THEN LET st == isStale(g.cache, g.order, t2, p.url).ret
                      st2 == isStale(g.cache, g.order, t3, p.url).ret
                      h1 == [h EXCEPT !.data = g.ret, !.isLoading = FALSE,
                                      !.isStale = st, !.error = Null]
                      b  == StartFetch(h1, fl, p)
                  IN  IF p.refetchOnStale /\ st2
                      THEN [cache |-> g.cache, order |-> g.order,
                            hook |-> [b.hook EXCEPT !.isLoading = FALSE],
                            inflight |-> b.inflight]
                      ELSE [cache |-> g.cache, order |-> g.order, hook |-> h1,
                            inflight |-> fl]
             ELSE LET b == StartFetch(h, fl, p)
                  IN  [cache |-> IF skipCache THEN c ELSE g.cache,
                       order |-> IF skipCache THEN o ELSE g.order,
                       hook |-> b.hook, inflight |-> b.inflight]

fetchData(c, o, t, t2, t3, p, h, fl, skipCache) ==
    IF ~p.enabled \/ p.url = NoUrl
    THEN [cache |-> c, order |-> o, hook |-> [h EXCEPT !.isLoading = FALSE],
          inflight |-> fl]
    ELSE LET g == getCache(c, o, t, p.url)
         IN  IF ~skipCache /\ g.ret # Null
             THEN LET st == isStale(g.cache, g.order, t2, p.url).ret
                      st2 == isStale(g.cache, g.order, t3, p.url).ret
                      h1 == [h EXCEPT !.data = g.ret, !.isLoading = FALSE,
                                      !.isStale = st]
                      b  == StartFetch(h1, fl, p)
                  IN  IF p.refetchOnStale /\ st2
                      THEN [cache |-> g.cache, order |-> g.order,
                            hook |-> [b.hook EXCEPT !.isLoading = FALSE],
                            inflight |-> b.inflight]
                      ELSE [cache |-> g.cache, order |-> g.order, hook |-> h1,
                            inflight |-> fl]
             ELSE LET b == StartFetch(h, fl, p)
                  IN  [cache |-> IF skipCache THEN c ELSE g.cache,
                       order |-> IF skipCache THEN o ELSE g.order,
                       hook |-> b.hook, inflight |-> b.inflight]

\* fetchData from the await of line 259 to its end, for the call rec in
\* flight: ok tells whether fetch resolved with response.ok and a body json;
\* otherwise, and when transform(json) throws, the catch block runs.  escaped
\* tells whether an exception leaves fetchData, rejecting its promise.
\* Mutant: the transform is applied after the try statement, so that what it
\* throws is not caught and the finally block has run before it.
fetchDataSettledTransformOutsideTry(c, o, t, m, h, rec, ok, json) ==
    IF ok /\ ~TransformThrows(rec.transform, json)
    THEN LET transformed == ApplyTransform(rec.transform, json)
             s == setCache(c, o, t, m, rec.url, transformed, rec.ttl)
         IN  [cache |-> s.cache, order |-> s.order,
              hook |-> [h EXCEPT !.data = transformed, !.isStale = FALSE,
                                 !.isLoading = FALSE],
              escaped |-> FALSE]
    ELSE IF ok
    THEN [cache |-> c, order |-> o,
          hook |-> [h EXCEPT !.isLoading = FALSE],
          escaped |-> TRUE]
    ELSE [cache |-> c, order |-> o,
          hook |-> [h EXCEPT !.error = Failure, !.isLoading = FALSE],
          escaped |-> FALSE]

\* Mutant: the body is stored in the cache as fetched, before the transform.
fetchDataSettledStoreRaw(c, o, t, m, h, rec, ok, json) ==
    IF ok /\ ~TransformThrows(rec.transform, json)
    THEN LET transformed == ApplyTransform(rec.transform, json)
             s == setCache(c, o, t, m, rec.url, json, rec.ttl)
         IN  [cache |-> s.cache, order |-> s.order,
              hook |-> [h EXCEPT !.data = transformed, !.isStale = FALSE,
                                 !.isLoading = FALSE],
          escaped |-> FALSE]
    ELSE [cache |-> c, order |-> o,
          hook |-> [h EXCEPT !.error = Failure, !.isLoading = FALSE],
          escaped |-> FALSE]

\* Mutant: the catch block also clears the data shown.
fetchDataSettledClearsData(c, o, t, m, h, rec, ok, json) ==
    IF ok /\ ~TransformThrows(rec.transform, json)
    THEN LET transformed == ApplyTransform(rec.transform, json)
             s == setCache(c, o, t, m, rec.url, transformed, rec.ttl)
         IN  [cache |-> s.cache, order |-> s.order,
              hook |-> [h EXCEPT !.data = transformed, !.isStale = FALSE,
                                 !.isLoading = FALSE],
          escaped |-> FALSE]
    ELSE [cache |-> c, order |-> o,
          hook |-> [h EXCEPT !.data = Null, !.error = Failure,
                             !.isLoading = FALSE],
          escaped |-> FALSE]

\* Mutant: a result does not overwrite an entry that an earlier result of an
\* overlapping call has stored (the first write wins).
fetchDataSettledFirstWins(c, o, t, m, h, rec, ok, json) ==
    IF ok /\ ~TransformThrows(rec.transform, json)
    THEN LET transformed == ApplyTransform(rec.transform, json)
             s == IF rec.url \in DOMAIN c
                  THEN [cache |-> c, order |-> o]
                  ELSE setCache(c, o, t, m, rec.url, transformed, rec.ttl)
         IN  [cache |-> s.cache, order |-> s.order,
              hook |-> [h EXCEPT !.data = transformed, !.isStale = FALSE,
                                 !.isLoading = FALSE],
          escaped |-> FALSE]
    ELSE [cache |-> c, order |-> o,
          hook |-> [h EXCEPT !.error = Failure, !.isLoading = FALSE],
          escaped |-> FALSE]

\* Mutant: the catch block drops the entry of the url from the store.
fetchDataSettledFailureInvalidates(c, o, t, m, h, rec, ok, json) ==
    IF ok /\ ~TransformThrows(rec.transform, json)
    THEN LET transformed == ApplyTransform(rec.transform, json)
             s == setCache(c, o, t, m, rec.url, transformed, rec.ttl)
         IN  [cache |-> s.cache, order |-> s.order,
              hook |-> [h EXCEPT !.data = transformed, !.isStale = FALSE,
                                 !.isLoading = FALSE],
              escaped |-> FALSE]
    ELSE [cache |-> MapDelete(c, rec.url), order |-> FilterKey(o, rec.url),
          hook |-> [h EXCEPT !.error = Failure, !.isLoading = FALSE],
          escaped |-> FALSE]

fetchDataSettled(c, o, t, m, h, rec, ok, json) ==
    IF ok /\ ~TransformThrows(rec.transform, json)
    THEN LET transformed == ApplyTransform(rec.transform, json)
             s == setCache(c, o, t, m, rec.url, transformed, rec.ttl)
         IN  [cache |-> s.cache, order |-> s.order,
              hook |-> [h EXCEPT !.data = transformed, !.isStale = FALSE,
                                 !.isLoading = FALSE],
          escaped |-> FALSE]
    ELSE [cache |-> c, order |-> o,
          hook |-> [h EXCEPT !.error = Failure, !.isLoading = FALSE],
          escaped |-> FALSE]

\* the sequence fl without its i-th element
RemoveAt(fl, i) == SubSeq(fl, 1, i - 1) \o SubSeq(fl, i + 1, Len(fl))

\* last, for a component: the step (op), its outcome (ok: the cache answered
\* the cycle, the producer succeeded), the number of producer calls it started
\* and, for a render and the effect it schedules, why the render took place
\* (cause): "mount", a new url ("key"), enabled turned on ("enabled") or off
\* ("disabled"), a render of the parent with the same url and enabled
\* ("parent"), a state cell of the component itself ("state"); for a call
\* that settles, how it failed ("producer", "transform", "escaped") or how it
\* stands to the other calls in flight (SettleOrder).
FetchObserved(op, ok, started, cause) ==
    [op |-> op, ok |-> ok, started |-> started, cause |-> cause]

FetchInit ==
    /\ maxEntries = MaxCap
    /\ cache = [x \in {} |-> 0]
    /\ accessOrder = <<>>
    /\ now = 0
    /\ recency = <<>>
    /\ everSet = {}
    /\ \E e \in BOOLEAN, opt \in Options :
          props = [url |-> FirstUrl, enabled |-> e, ttl |-> opt.ttl,
                   refetchOnStale |-> opt.refetchOnStale,
                   transform |-> opt.transform, stable |-> opt.stable]
    /\ last = FetchObserved("render", FALSE, 0, "mount")
    /\ hook = InitialHook
    /\ inflight = <<>>
    /\ dirty = FALSE
    /\ effectPending = TRUE
    /\ ProviderMounted
    /\ mounted = TRUE
    /\ NoAuth

\* Time passes between two steps of the component.
FetchTick ==
    /\ now < MaxTime
    /\ now' = now + 1
    /\ ~effectPending
    /\ last' = FetchObserved("tick", FALSE, 0, "none")
    /\ UNCHANGED <<maxEntries, cache, accessOrder, recency, everSet>>
    /\ UNCHANGED <<fvars, lvars, auth>>

\* The bound on the calls in flight leaves room for the cycle that the effect
\* of a render with the props p would run: a render that schedules the effect
\* waits for a call to settle otherwise.
EffectCanRun(p) ==
    Len(fetchData(cache, accessOrder, now, now, now, p, hook, inflight,
                  FALSE).inflight)
        <= MaxInFlight

\* The component renders again because one of its state cells changed.  The
\* useCallback of fetchData yields a new function when one of its
\* dependencies changed: url, enabled, ttl and refetchOnStale are the same,
\* transform and fetchOptions are new objects unless the caller keeps them
\* stable.  The effect is due when fetchData is a new function.
Rerender ==
    /\ mounted
    /\ dirty /\ ~effectPending
    /\ ~props.stable => EffectCanRun(props)
    /\ dirty' = FALSE
    /\ effectPending' = ~props.stable
    /\ last' = FetchObserved("render", FALSE, 0, "state")
    /\ UNCHANGED <<maxEntries, cache, accessOrder, now, recency, everSet,
                   props, hook, inflight, lvars, auth>>

\* The parent renders the component with url u and enabled e: a render the
\* hook can tell from the one before, by its url, by enabled, by the identity
\* of transform and fetchOptions or by a changed state cell.
ParentRender(u, e) ==
    LET changed == u # props.url \/ e # props.enabled \/ ~props.stable
        cause == IF u # props.url THEN "key"
                 ELSE IF e /\ ~props.enabled THEN "enabled"
                 ELSE IF ~e /\ props.enabled THEN "disabled"
                 ELSE "parent"
    IN  /\ mounted
        /\ ~effectPending
        /\ changed \/ dirty
        /\ changed => EffectCanRun([props EXCEPT !.url = u, !.enabled = e])
        /\ props' = [props EXCEPT !.url = u, !.enabled = e]
        /\ dirty' = FALSE
        /\ effectPending' = changed
        /\ last' = FetchObserved("render", FALSE, 0, cause)
        /\ UNCHANGED <<maxEntries, cache, accessOrder, now, recency, everSet,
                       hook, inflight, lvars, auth>>

\* The initial-fetch effect: fetchData().  The clock advances by dt between
\* the Date.now() of getCache and that of the first checkStale, and by dt2
\* between the first checkStale and the second, which is called only with
\* refetchOnStale.  The effect of a render runs before the component handles
\* anything else: no other step is taken while effectPending.
RunEffect(dt, dt2) ==
    LET r == fetchData(cache, accessOrder, now, now + dt, now + dt + dt2, props,
                       hook, inflight, FALSE)
        hit == props.enabled /\ props.url # NoUrl
                 /\ getCache(cache, accessOrder, now, props.url).ret # Null
    IN  /\ mounted
        /\ effectPending
        /\ now + dt + dt2 <= MaxTime
        /\ dt > 0 => hit
        /\ dt2 > 0 => hit /\ props.refetchOnStale
        /\ Len(r.inflight) <= MaxInFlight
        /\ effectPending' = FALSE
        /\ cache' = r.cache
        /\ accessOrder' = r.order
        /\ now' = now + dt + dt2
        /\ hook' = r.hook
        /\ inflight' = r.inflight
        /\ dirty' = (dirty \/ r.hook # hook)
        /\ last' = FetchObserved("effect", hit, Len(r.inflight) - Len(inflight),
                                 last.cause)
        /\ UNCHANGED <<maxEntries, recency, everSet, props, lvars, auth>>

\* The caller calls refetch(): fetchData(true).  The function is the
\* caller's to keep, and it runs the same after the unmount of the component;
\* there is no render to schedule then.
Refetch ==
    LET r == fetchData(cache, accessOrder, now, now, now, props, hook, inflight,
                       TRUE)
    IN  /\ DOMAIN hook # {}
        /\ ~effectPending
        /\ Len(r.inflight) <= MaxInFlight
        /\ cache' = r.cache
        /\ accessOrder' = r.order
        /\ hook' = r.hook
        /\ inflight' = r.inflight
        /\ dirty' = (mounted /\ (dirty \/ r.hook # hook))
        /\ last' = FetchObserved("refetch", FALSE, Len(r.inflight) - Len(inflight),
                                 "none")
        /\ UNCHANGED <<maxEntries, now, recency, everSet, props, effectPending,
                       lvars, auth>>

\* Observation of a call rec that resolves, for last.cause: "first" when all
\* the calls it leaves in flight (rest, not empty) are for its url, "overlap"
\* when the step before was such a "first" or an "overlap" after it: rec was
\* in flight with a call for its url that has just stored its result, and
\* completes after it.
SettleOrder(rec, rest) ==
    IF last.op = "settle" /\ last.ok /\ last.cause \in {"first", "overlap"}
    THEN "overlap"
    ELSE IF rest # <<>> /\ \A j \in 1..Len(rest) : rest[j].url = rec.url
    THEN "first"
    ELSE "none"

\* The await of line 259 resumes for the i-th producer call in flight with a
\* response that is OK: the test of lines 261-263 passes, fetchData calls
\* response.json() and returns to the event loop at the await of line 265.
\* No state cell, no entry and no clock reading is involved; any other step
\* can be taken before the body arrives.
ResponseOk(i) ==
    /\ ~effectPending
    /\ ~inflight[i].responded
    /\ inflight' = [inflight EXCEPT ![i].responded = TRUE]
    /\ last' = FetchObserved("response", TRUE, 0, "none")
    /\ UNCHANGED <<maxEntries, cache, accessOrder, now, recency, everSet,
                   props, hook, dirty, effectPending, lvars, auth>>

\* The await of line 265 resumes for the i-th producer call in flight, whose
\* response was OK, with the body json: lines 266-272 and 277.
SettleOk(i, json) ==
    LET rec == inflight[i]
        r == fetchDataSettled(cache, accessOrder, now, maxEntries, hook, rec, TRUE, json)
        rest == RemoveAt(inflight, i)
    IN  /\ ~effectPending
        /\ rec.responded
        /\ ~TransformThrows(rec.transform, json)
        /\ inflight' = rest
        /\ cache' = r.cache
        /\ accessOrder' = r.order
        /\ hook' = r.hook
        /\ dirty' = (mounted /\ (dirty \/ r.hook # hook))
        /\ last' = FetchObserved("settle", TRUE, 0, SettleOrder(rec, rest))
        /\ UNCHANGED <<maxEntries, now, recency, everSet, props, effectPending,
                       lvars, auth>>

\* The i-th producer call in flight fails: fetch rejects or the response is
\* not OK (the await of line 259 resumes, for a call that has no response
\* yet), or the body is not JSON (the await of line 265 resumes, for a call
\* whose response was OK).  The Error caught is a new object: the error cell
\* changes.
SettleFail(i) ==
    LET rec == inflight[i]
        r == fetchDataSettled(cache, accessOrder, now, maxEntries, hook, rec, FALSE, Null)
        rest == RemoveAt(inflight, i)
    IN  /\ ~effectPending
        /\ cache' = r.cache
        /\ accessOrder' = r.order
        /\ hook' = r.hook
        /\ inflight' = [j \in 1..Len(rest) |-> [rest[j] EXCEPT !.failedSince = TRUE]]
        /\ dirty' = mounted
        /\ last' = FetchObserved("settle", FALSE, 0,
                                 IF r.escaped THEN "escaped" ELSE "producer")
        /\ UNCHANGED <<maxEntries, now, recency, everSet, props, effectPending,
                       lvars, auth>>

\* The await of line 265 resumes for the i-th producer call in flight, whose
\* response was OK, with the body null, and the transform of the call throws
\* on it.
SettleThrow(i) ==
    LET rec == inflight[i]
        r == fetchDataSettled(cache, accessOrder, now, maxEntries, hook, rec, TRUE, BadBody)
        rest == RemoveAt(inflight, i)
    IN  /\ ~effectPending
        /\ rec.responded
        /\ TransformThrows(rec.transform, BadBody)
        /\ cache' = r.cache
        /\ accessOrder' = r.order
        /\ hook' = r.hook
        /\ inflight' = [j \in 1..Len(rest) |-> [rest[j] EXCEPT !.failedSince = TRUE]]
        /\ dirty' = mounted
        /\ last' = FetchObserved("settle", FALSE, 0,
                                 IF r.escaped THEN "escaped" ELSE "transform")
        /\ UNCHANGED <<maxEntries, now, recency, everSet, props, effectPending,
                       lvars, auth>>

\* A parent turns enabled on for a component it mounted disabled, and does
\* not turn it off again.
DoParentRender == \E u \in Urls : ParentRender(u, TRUE)
DoRunEffect == \E dt \in {0, 1}, dt2 \in {0, 1} : RunEffect(dt, dt2)
DoResponseOk == \E i \in 1..Len(inflight) : ResponseOk(i)
DoSettleOk == \E i \in 1..Len(inflight), json \in Bodies : SettleOk(i, json)
DoSettleFail == \E i \in 1..Len(inflight) : SettleFail(i)
DoSettleThrow == \E i \in 1..Len(inflight) : SettleThrow(i)

FetchNext ==
    \/ FetchTick
    \/ Rerender
    \/ DoParentRender
    \/ DoRunEffect
    \/ Refetch
    \/ DoResponseOk
    \/ DoSettleOk
    \/ DoSettleFail
    \/ DoSettleThrow

SpecFetch == FetchInit /\ [][FetchNext]_vars

\* An enabled component over an empty store whose producer always fails (fetch
\* rejects or answers non-OK: no call gets as far as the await of line 265),
\* whose parent does not render it again and whose caller never calls
\* refetch().
\* React runs a render that a state change has scheduled and the effect of a
\* render, and every call of the producer settles: weak fairness of each.
FailingInit == FetchInit /\ props.enabled

FailingNext ==
    \/ FetchTick
    \/ Rerender
    \/ DoRunEffect
    \/ DoSettleFail

SpecFailing ==
    /\ FailingInit
    /\ [][FailingNext]_vars
    /\ WF_vars(Rerender)
    /\ WF_vars(DoRunEffect)
    /\ WF_vars(DoSettleFail)

\* A component without refetchOnStale whose caller never calls refetch() and
\* keeps transform and fetchOptions the same objects over all renders: every
\* fetch cycle is a non-forced one, started by the effect after the mount, a
\* new url or enabled turned on.
EffectsInit == FetchInit /\ ~props.refetchOnStale /\ props.stable

EffectsNext ==
    \/ FetchTick
    \/ Rerender
    \/ DoParentRender
    \/ DoRunEffect
    \/ DoResponseOk
    \/ DoSettleOk
    \/ DoSettleFail
    \/ DoSettleThrow

SpecEffects == EffectsInit /\ [][EffectsNext]_vars

\* The hook when the lookup of line 242 and the staleness checks of lines 246
\* and 249 of one cycle read the same Date.now(): no time passes inside a
\* cycle.
RunEffectInstant == RunEffect(0, 0)

InstantNext ==
    \/ FetchTick
    \/ Rerender
    \/ DoParentRender
    \/ RunEffectInstant
    \/ Refetch
    \/ DoResponseOk
    \/ DoSettleOk
    \/ DoSettleFail
    \/ DoSettleThrow

SpecInstant == FetchInit /\ [][InstantNext]_vars


\* ================================================================ lifecycle
\* The provider and one component from before its mount to after the teardown
\* of both: the component is mounted under a DataCacheProvider or outside any,
\* keeps its options the same objects over its renders, is rendered by its
\* parent with its url or with none, enabled or disabled, is unmounted, and the provider is unmounted after it.  The
\* provider's timer calls cleanupExpired while it is armed; the model leaves
\* the timer's period open (a sweep can take place between any two steps).

\* useContext(DataCacheContext): the value of the nearest provider above the
\* caller, or the default of createContext(null).
useContext(prov) == IF prov = "mounted" THEN "value" ELSE "null"

\* Mutant: outside a provider the accessor hands out a store that does
\* nothing, without throwing.
useDataCacheDegraded(prov) == [threw |-> FALSE, ret |-> useContext(prov)]

\* useDataCache()
useDataCache(prov) ==
    LET context == useContext(prov)
    IN  [threw |-> context = "null", ret |-> context]

\* The first render of a component that calls useCachedFetch: useDataCache()
\* of line 227, then the useState cells; a throw ends the render before the
\* cells exist, and React does not mount the component.
useCachedFetch(prov) ==
    IF useDataCache(prov).threw
    THEN [threw |-> TRUE, hook |-> <<>>]
    ELSE [threw |-> FALSE, hook |-> InitialHook]

\* Mutant: the cleanup of the provider's effect leaves the timer armed.
ProviderCleanupKeepsInterval(iv) == iv

\* The cleanup of the provider's effect: clearInterval(interval).
ProviderCleanup(iv) == FALSE

LifeOptions == {o \in Options : o.stable}

LifeInit ==
    /\ maxEntries = MaxCap
    /\ cache = [x \in {} |-> 0]
    /\ accessOrder = <<>>
    /\ now = 0
    /\ recency = <<>>
    /\ everSet = {}
    /\ provider \in {"mounted", "none"}
    /\ interval = (provider = "mounted")
    /\ \E u \in {FirstUrl, NoUrl}, e \in BOOLEAN, opt \in LifeOptions :
          props = [url |-> u, enabled |-> e, ttl |-> opt.ttl,
                   refetchOnStale |-> opt.refetchOnStale,
                   transform |-> opt.transform, stable |-> opt.stable]
    /\ last = FetchObserved("init", FALSE, 0, "none")
    /\ hook = <<>>
    /\ inflight = <<>>
    /\ dirty = FALSE
    /\ effectPending = FALSE
    /\ mounted = FALSE
    /\ NoAuth

\* React renders the component for the first time.
Mount ==
    LET r == useCachedFetch(provider)
    IN  /\ ~mounted /\ DOMAIN hook = {}
        /\ provider # "unmounted"
        /\ hook' = r.hook
        /\ mounted' = ~r.threw
        /\ effectPending' = ~r.threw
        /\ last' = FetchObserved("render", FALSE, 0,
                                 IF r.threw THEN "threw" ELSE "mount")
        /\ UNCHANGED <<maxEntries, cache, accessOrder, now, recency, everSet,
                       props, inflight, dirty, provider, interval, auth>>

\* React unmounts the component: useCachedFetch registers no cleanup, and the
\* producer calls in flight stay in flight.
Unmount ==
    /\ mounted /\ ~effectPending
    /\ mounted' = FALSE
    /\ dirty' = FALSE
    /\ last' = FetchObserved("unmount", FALSE, 0, "none")
    /\ UNCHANGED <<maxEntries, cache, accessOrder, now, recency, everSet,
                   props, hook, inflight, effectPending, provider, interval,
                   auth>>

\* React unmounts the provider, after the component below it.
ProviderUnmount ==
    /\ provider = "mounted" /\ ~mounted
    /\ provider' = "unmounted"
    /\ interval' = ProviderCleanup(interval)
    /\ last' = FetchObserved("teardown", FALSE, 0, "none")
    /\ UNCHANGED <<maxEntries, cache, accessOrder, now, recency, everSet,
                   fvars, mounted, auth>>

\* The timer of the provider's effect fires: cleanupExpired().  ok tells
\* whether the call removed an entry.
TimerSweep ==
    LET r == cleanupExpired(cache, accessOrder, now)
    IN  /\ interval
        /\ ~effectPending
        /\ cache' = r.cache
        /\ accessOrder' = r.order
        /\ last' = FetchObserved("sweep", r.ret > 0, 0, "none")
        /\ UNCHANGED <<maxEntries, now, recency, everSet, fvars, lvars, auth>>

\* The parent renders the component with the url or without one, enabled or
\* disabled.
LifeParentRender ==
    \E u \in {FirstUrl, NoUrl}, e \in BOOLEAN : ParentRender(u, e)

LifeNext ==
    \/ Mount
    \/ LifeParentRender
    \/ Unmount
    \/ ProviderUnmount
    \/ TimerSweep
    \/ FetchTick
    \/ Rerender
    \/ DoRunEffect
    \/ Refetch
    \/ DoResponseOk
    \/ DoSettleOk
    \/ DoSettleFail
    \/ DoSettleThrow

SpecLife == LifeInit /\ [][LifeNext]_vars

\* ------------------------------------------------------------ AuthContext
\* Strings are sequences of one-character strings, as the keys are.
At == "@"

\* ALLOWED_DOMAINS, the default of the allowedDomains prop: two domains, "s"
\* and "e" for short.
ALLOWED_DOMAINS == { <<"s">>, <<"e">> }

\* The values of the allowedDomains prop the parent renders with.
DomainLists == { ALLOWED_DOMAINS, { <<"s">> }, { <<"e">> } }

\* The email claims of credentials: in either allowed domain, in a domain that
\* is never allowed, without "@", with nothing after "@", with two "@".
Emails ==
    { <<"u", At, "s">>, <<"u", At, "e">>, <<"u", At, "x">>, <<"u">>,
      <<"u", At>>, <<"u", At, "s", At, "x">> }

\* The payloads of credentials: with an email claim or without.
Payloads == { [sub |-> 1] } \cup { [sub |-> 1, email |-> e] : e \in Emails }

\* What callers pass to signIn: a token jwtDecode rejects, or a JWT.
Credentials ==
    { [valid |-> FALSE, payload |-> [sub |-> 1]] }
       \cup { [valid |-> TRUE, payload |-> pl] : pl \in Payloads }

\* useState(null) of user and of authError.
NullUser == [isNull |-> TRUE]
NullError == "null"
AccessRestricted == "Access restricted to authorized domains only."
InvalidToken == "Invalid token specified"

\* localStorage.getItem(AUTH_STORAGE_KEY): no item, text that is no JSON, or
\* the JSON text of an object.
NoItem == [kind |-> "none"]
Garbage == [kind |-> "garbage"]
JsonStringify(v) == [kind |-> "json", value |-> v]
JsonParse(text) ==
    IF text.kind = "json" THEN [threw |-> FALSE, value |-> text.value]
    ELSE [threw |-> TRUE, value |-> NullUser]

\* What localStorage holds when the page loads: nothing, text that does not
\* parse, or a session an earlier page stored, with an email or without.
StoredItems ==
    {NoItem, Garbage, JsonStringify([id |-> 1])}
       \cup { JsonStringify([id |-> 1, email |-> e]) : e \in Emails }

\* s.split(sep): the pieces of s between the occurrences of sep.
RECURSIVE Split(_, _)
Split(s, sep) ==
    IF \A i \in 1..Len(s) : s[i] # sep
    THEN <<s>>
    ELSE LET i == CHOOSE n \in 1..Len(s) :
                     s[n] = sep /\ \A m \in 1..(n - 1) : s[m] # sep
         IN  <<SubSeq(s, 1, i - 1)>> \o Split(SubSeq(s, i + 1, Len(s)), sep)

\* obj.email?.split('@')[1]: undefined when obj has no email or the email
\* has no "@".
EmailDomain(obj) ==
    IF "email" \notin DOMAIN obj
    THEN [defined |-> FALSE, value |-> <<>>]
    ELSE LET parts == Split(obj.email, At)
         IN  IF Len(parts) >= 2
             THEN [defined |-> TRUE, value |-> parts[2]]
             ELSE [defined |-> FALSE, value |-> <<>>]

\* JavaScript's truthiness of a string or undefined.
Truthy(d) == d.defined /\ d.value # <<>>

\* domain && allowedDomains.includes(domain)
DomainAllowed(d, allowed) == Truthy(d) /\ d.value \in allowed

\* jwtDecode(token): the payload, or an InvalidTokenError.
jwtDecode(token) == [threw |-> ~token.valid, payload |-> token.payload]

\* The body of the effect of lines 42-67 on the provider state a.
checkExistingSession(a) ==
    LET stored == a.storage
        parsed == JsonParse(stored)
        domain == EmailDomain(parsed.value)
    IN  IF stored = NoItem
        THEN [a EXCEPT !.isLoading = FALSE]
        ELSE IF parsed.threw
        THEN [a EXCEPT !.storage = NoItem, !.isLoading = FALSE]
        ELSE IF DomainAllowed(domain, a.allowedDomains)
        THEN [a EXCEPT !.user = parsed.value, !.isLoading = FALSE]
        ELSE [a EXCEPT !.storage = NoItem, !.isLoading = FALSE]

\* handleCredentialResponse({credential}) on the provider state a; allowed is
\* the allowedDomains of the render that created the callback (useCallback
\* with deps [allowedDomains], line 131); threw tells whether the promise it
\* returns rejects.
handleCredentialResponse(a, allowed, response) ==
    LET decoded == jwtDecode(response.credential)
        domain == EmailDomain(decoded.payload)
        userData == [id |-> decoded.payload.sub, email |-> decoded.payload.email]
    IN  IF decoded.threw
        THEN [auth |-> [a EXCEPT !.authError = InvalidToken], threw |-> TRUE]
        ELSE IF ~DomainAllowed(domain, allowed)
        THEN [auth |-> [a EXCEPT !.authError = AccessRestricted], threw |-> TRUE]
        ELSE [auth |-> [a EXCEPT !.authError = NullError,
                                 !.storage = JsonStringify(userData),
                                 !.user = userData],
              threw |-> FALSE]

\* signIn(credential) of the context value of the latest render: it calls the
\* handleCredentialResponse of that render.
signIn(a, credential) ==
    handleCredentialResponse(a, a.allowedDomains, [credential |-> credential])

\* The callback registered with google.accounts.id.initialize (line 80) by the
\* effect of lines 70-99, which has no dependencies and runs once: it is the
\* handleCredentialResponse of the first render and validates against the
\* allowedDomains of that render.
googleCallback(a, response) ==
    handleCredentialResponse(a, a.firstAllowedDomains, response)

\* signOut()
signOut(a) == [a EXCEPT !.storage = NoItem, !.user = NullUser, !.authError = NullError]

\* clearError()
clearError(a) == [a EXCEPT !.authError = NullError]

\* The first render of the AuthProvider: the useState initial values, with
\* the session effect due.
AuthMounted(allowed, stored) ==
    [user |-> NullUser, isLoading |-> TRUE, authError |-> NullError,
     allowedDomains |-> allowed, storage |-> stored, effectPending |-> TRUE,
     firstAllowedDomains |-> allowed, google |-> FALSE]

AuthInit ==
    /\ maxEntries = MaxCap
    /\ cache = [x \in {} |-> 0]
    /\ accessOrder = <<>>
    /\ now = 0
    /\ recency = <<>>
    /\ everSet = {}
    /\ last = FetchObserved("init", FALSE, 0, "none")
    /\ NoFetch
    /\ provider = "none"
    /\ interval = FALSE
    /\ \E allowed \in DomainLists, stored \in StoredItems :
          auth = AuthMounted(allowed, stored)

AuthFrame ==
    UNCHANGED <<maxEntries, cache, accessOrder, now, last, recency, everSet,
                fvars, lvars>>

\* The effect of lines 42-67 runs, after the first render and after each
\* render with another allowedDomains.
SessionEffect ==
    /\ auth.effectPending
    /\ auth' = [checkExistingSession(auth) EXCEPT !.effectPending = FALSE]
    /\ AuthFrame

\* The parent renders the provider with a new array as allowedDomains prop,
\* of another content or of the same: the dependencies of the effect (line
\* 67) are compared by identity, so the session effect is due either way.
SetAllowedDomains(allowed) ==
    /\ ~auth.effectPending
    /\ auth' = [auth EXCEPT !.allowedDomains = allowed, !.effectPending = TRUE]
    /\ AuthFrame

\* google.accounts.id.initialize of line 78 is called, by the effect of lines
\* 70-99 or by the onload of the script it adds; never when
\* REACT_APP_GOOGLE_CLIENT_ID is not set or the script does not load.
GoogleInitialize ==
    /\ ~auth.effectPending
    /\ ~auth.google
    /\ auth' = [auth EXCEPT !.google = TRUE]
    /\ AuthFrame

\* Google Sign-In delivers a credential to the registered callback.
GoogleCallback(credential) ==
    /\ ~auth.effectPending
    /\ auth.google
    /\ auth' = googleCallback(auth, [credential |-> credential]).auth
    /\ AuthFrame

SignIn(credential) ==
    /\ ~auth.effectPending
    /\ auth' = signIn(auth, credential).auth
    /\ AuthFrame

SignOut ==
    /\ ~auth.effectPending
    /\ auth' = signOut(auth)
    /\ AuthFrame

ClearError ==
    /\ ~auth.effectPending
    /\ auth.authError # NullError
    /\ auth' = clearError(auth)
    /\ AuthFrame

\* The page is loaded again: the provider mounts anew over what localStorage
\* holds.
Reload ==
    /\ ~auth.effectPending
    /\ \E allowed \in DomainLists : auth' = AuthMounted(allowed, auth.storage)
    /\ AuthFrame

DoSetAllowedDomains == \E allowed \in DomainLists : SetAllowedDomains(allowed)
DoSignIn == \E credential \in Credentials : SignIn(credential)
DoGoogleCallback == \E credential \in Credentials : GoogleCallback(credential)

AuthNext ==
    \/ SessionEffect
    \/ DoSetAllowedDomains
    \/ DoSignIn
    \/ GoogleInitialize
    \/ DoGoogleCallback
    \/ SignOut
    \/ ClearError
    \/ Reload

SpecAuth == AuthInit /\ [][AuthNext]_vars


\* =================================================================== claims
\* What a caller observes in the current state.
Present(k) == k \in DOMAIN cache
HasNow(k) == hasCache(cache, accessOrder, now, k).ret
StaleNow(k) == isStale(cache, accessOrder, now, k).ret
GetNow(k) == getCache(cache, accessOrder, now, k).ret

\* ------------------------------------------------------------------- C1
\* C1: in every reachable state the store holds at most maxEntries entries,
\* for every capacity maxEntries >= 0.
C1_AtMostMaxEntries == Cardinality(DOMAIN cache) <= maxEntries

\* ------------------------------------------------------------------- C2
\* C2: between operations the keys of the entry mapping are exactly the keys
\* of the access-order ledger, and each occurs exactly once in the ledger.
C2_LedgerMatchesMapping ==
    /\ SeqSet(accessOrder) = DOMAIN cache
    /\ \A k \in DOMAIN cache : Count(accessOrder, k) = 1
    /\ Len(accessOrder) = Cardinality(DOMAIN cache)

\* A get has just removed an expired entry while other entries remain, in a
\* store every key of which has been written: more keys than it can hold.
C2_Witness ==
    /\ last.op = "get" /\ last.hit /\ last.removed = {last.key}
    /\ DOMAIN cache # {}
    /\ Cardinality(everSet) = Cardinality(Keys)

\* ------------------------------------------------------------------- C3
\* C3: a set of a key that is already present removes no other key; afterwards
\* the key has exactly one entry, holding the new value, and every other
\* entry is still present with unchanged value and expiry.
C3_OverwriteEvictsNothing ==
    [][ (last'.op = "set" /\ last'.key \in DOMAIN cache) =>
          /\ \A k \in (DOMAIN cache) \ {last'.key} :
                /\ k \in DOMAIN cache'
                /\ cache'[k].data = cache[k].data
                /\ cache'[k].expiresAt = cache[k].expiresAt
          /\ last'.key \in DOMAIN cache'
          /\ cache'[last'.key].data = last'.data
          /\ Count(accessOrder', last'.key) = 1 ]_vars

\* ------------------------------------------------------------------- C4
\* C4 (as claimed): a set of a key that is not in the store removes no entry
\* when the store holds fewer than maxEntries entries, and removes exactly one
\* entry, the least recently set or freshly read one, when it holds exactly
\* maxEntries entries.
C4_NewKeyEvictsExactlyLRU ==
    [][ (last'.op = "set" /\ last'.key \notin DOMAIN cache) =>
          /\ Cardinality(DOMAIN cache) < maxEntries =>
                \A k \in DOMAIN cache : k \in DOMAIN cache' /\ cache'[k] = cache[k]
          /\ Cardinality(DOMAIN cache) = maxEntries =>
                /\ recency # <<>>
                /\ (DOMAIN cache) \ (DOMAIN cache') = {Head(recency)}
                /\ \A k \in (DOMAIN cache) \ {Head(recency)} : cache'[k] = cache[k] ]_vars

\* C4 (amended): the same, the eviction of exactly one entry being claimed for
\* a store that holds exactly maxEntries >= 1 entries; an empty store of
\* capacity 0 has nothing to evict.
C4_NewKeyEvictsLRUIfAny ==
    [][ (last'.op = "set" /\ last'.key \notin DOMAIN cache) =>
          /\ Cardinality(DOMAIN cache) < maxEntries =>
                \A k \in DOMAIN cache : k \in DOMAIN cache' /\ cache'[k] = cache[k]
          /\ (Cardinality(DOMAIN cache) = maxEntries /\ maxEntries >= 1) =>
                /\ recency # <<>>
                /\ (DOMAIN cache) \ (DOMAIN cache') = {Head(recency)}
                /\ \A k \in (DOMAIN cache) \ {Head(recency)} : cache'[k] = cache[k]
          /\ (Cardinality(DOMAIN cache) = maxEntries /\ maxEntries = 0) =>
                (DOMAIN cache) \ (DOMAIN cache') = {} ]_vars

\* A set of a new key has evicted exactly one entry of a full store of
\* capacity 2 and kept the other.
C4_Witness ==
    /\ last.op = "set" /\ ~last.hit
    /\ Cardinality(last.removed) = 1
    /\ maxEntries = 2
    /\ Cardinality(DOMAIN cache) = 2

\* ------------------------------------------------------------------- C5
\* C5: a get of a key whose entry has expiresAt earlier than the current time
\* returns absent (never the entry's value) and removes the entry from the
\* mapping and from the ledger.
C5_ExpiredNeverServed ==
    [][ \A k \in Keys :
          (last'.op = "get" /\ last'.key = k /\ k \in DOMAIN cache
                /\ cache[k].expiresAt < now) =>
             /\ last'.ret = Null
             /\ k \notin DOMAIN cache'
             /\ k \notin SeqSet(accessOrder') ]_vars

\* A get has just found an expired entry: it returned absent and removed it.
C5_Witness ==
    /\ last.op = "get" /\ last.hit /\ last.ret = Null
    /\ last.removed = {last.key}

\* ------------------------------------------------------------------- C6
\* C6: immediately after set(key, value, ttl) with ttl > 0 (no time elapsed,
\* no other operation), get(key) returns value and has(key) is true; a set
\* never evicts the key it has just written.
C6_ReadYourWrite ==
    last.op = "set" =>
        /\ Present(last.key)
        /\ last.ttl > 0 =>
              /\ GetNow(last.key) = last.data
              /\ HasNow(last.key) = TRUE

\* A set with ttl > 0 on a full store has just evicted another key, at a time
\* later than 0.
C6_Witness ==
    /\ last.op = "set" /\ last.ttl > 0 /\ last.removed # {}
    /\ now > 0
    /\ GetNow(last.key) = last.data

\* ------------------------------------------------------------------- C7
\* The parts of C7 that hold of every step, for a key k: a set of k gives the
\* entry the expiry now + ttl; while the entry stays and k is not set again,
\* the expiry does not change; an entry past its expiry is reported stale; a
\* get of k past the expiry returns absent and leaves isStale(k) false; and
\* while k is absent and not set again, isStale(k) stays false.
C7_Step(k) ==
    LET setK == last'.op = "set" /\ last'.key = k
        getK == last'.op = "get" /\ last'.key = k
    IN  /\ setK => k \in DOMAIN cache' /\ cache'[k].expiresAt = now + last'.ttl
        /\ (k \in DOMAIN cache /\ k \in DOMAIN cache' /\ ~setK) =>
              cache'[k].expiresAt = cache[k].expiresAt
        /\ (k \in DOMAIN cache' /\ now' > cache'[k].expiresAt) =>
              isStale(cache', accessOrder', now', k).ret
        /\ (getK /\ k \in DOMAIN cache /\ now > cache[k].expiresAt) =>
              /\ last'.ret = Null
              /\ ~isStale(cache', accessOrder', now', k).ret
        /\ (k \notin DOMAIN cache /\ ~setK) =>
              ~isStale(cache', accessOrder', now', k).ret

\* C7 (as claimed): after set(key, v, ttl) at time t and no further write to
\* key, at any time later than t + ttl isStale(key) is true until key is read
\* or swept: a key that is stale stays stale over every step that is not a
\* get of the key, a sweep or a set of the key.
C7_StaleUntilReadOrSwept ==
    [][ \A k \in Keys :
          /\ C7_Step(k)
          /\ (StaleNow(k)
                /\ ~(last'.op = "set" /\ last'.key = k)
                /\ ~(last'.op = "get" /\ last'.key = k)
                /\ last'.op # "cleanupExpired") =>
                isStale(cache', accessOrder', now', k).ret ]_vars

\* C7 (amended): ... isStale(key) is true for as long as the entry stays in
\* the store; besides a get of the key and a sweep, an invalidation, clear
\* and the capacity eviction of a set of another key remove it.
C7_StaleWhileEntryRemains ==
    [][ \A k \in Keys :
          /\ C7_Step(k)
          /\ (StaleNow(k)
                /\ ~(last'.op = "set" /\ last'.key = k)
                /\ ~(last'.op = "get" /\ last'.key = k)
                /\ last'.op # "cleanupExpired") =>
                \/ isStale(cache', accessOrder', now', k).ret
                \/ /\ k \in last'.removed
                   /\ last'.op \in {"invalidate", "clear", "set"} ]_vars

\* At the last instant of the clock a get has just found its key expired and
\* removed it: isStale is false for it now, while another entry that is past
\* its expiry and was neither read nor swept is still reported stale.
C7_Witness ==
    /\ last.op = "get" /\ last.hit /\ last.ret = Null
    /\ now = MaxTime
    /\ ~StaleNow(last.key)
    /\ \E k \in DOMAIN cache : StaleNow(k)

\* ------------------------------------------------------------------- C8
Fresh(k) == HasNow(k) /\ ~StaleNow(k)
Stale(k) == ~HasNow(k) /\ StaleNow(k)
Absent(k) == ~Present(k) /\ ~HasNow(k) /\ ~StaleNow(k) /\ GetNow(k) = Null

\* C8: every key is in exactly one of the states fresh, stale and absent, at
\* every time; a key that was never set is absent.
C8_FreshStaleAbsent ==
    \A k \in Keys :
        /\ Fresh(k) \/ Stale(k) \/ Absent(k)
        /\ ~(Fresh(k) /\ Stale(k))
        /\ ~(Fresh(k) /\ Absent(k))
        /\ ~(Stale(k) /\ Absent(k))
        /\ k \notin everSet => Absent(k)

\* One key is fresh at the very time of its expiry, one is stale and one was
\* never set.
C8_Witness ==
    /\ \E k \in Keys : Fresh(k) /\ cache[k].expiresAt = now
    /\ \E k \in Keys : Stale(k)
    /\ \E k \in Keys : k \notin everSet /\ Absent(k)

\* ------------------------------------------------------------------- C9
\* C9: has, isStale and stats leave the entry mapping and the order of the
\* ledger unchanged, also for a stale key, so the key the next set evicts is
\* the same after the call as before.
C9_ProbesChangeNothing ==
    [][ last'.op \in {"has", "isStale", "stats"} =>
          /\ cache' = cache
          /\ accessOrder' = accessOrder
          /\ EvictLoop(cache', accessOrder', maxEntries)
                = EvictLoop(cache, accessOrder, maxEntries) ]_vars

\* has has just answered false for a stale key that is not the most recently
\* used one; the key is still in the mapping and in the ledger.
C9_Witness ==
    /\ last.op = "has" /\ last.hit /\ ~last.ok
    /\ Present(last.key) /\ StaleNow(last.key)
    /\ Len(accessOrder) = 2 /\ accessOrder[1] = last.key

\* ------------------------------------------------------------------ C10
\* The pattern p, read from position i, matches key from position j on as a
\* glob: "*" matches zero or more characters, every other character itself.
RECURSIVE GlobMatchAt(_, _, _, _)
GlobMatchAt(p, i, key, j) ==
    IF i > Len(p) THEN j = Len(key) + 1
    ELSE IF p[i] = Star
         THEN \E n \in 0..(Len(key) + 1 - j) : GlobMatchAt(p, i + 1, key, j + n)
         ELSE /\ j <= Len(key)
              /\ key[j] = p[i]
              /\ GlobMatchAt(p, i + 1, key, j + 1)

GlobMatch(p, key) == GlobMatchAt(p, 1, key, 1)

\* C10: invalidate(pattern), for a pattern with a "*", removes exactly the
\* keys that match the pattern as a glob over the whole key, leaves every
\* other entry present and unchanged, and returns the number of keys removed.
C10_InvalidateRemovesGlobMatches ==
    [][ \A p \in Patterns :
          (HasStar(p) /\ Invalidate(p)) =>
             /\ DOMAIN cache' = {k \in DOMAIN cache : ~GlobMatch(p, k)}
             /\ \A k \in DOMAIN cache' : cache'[k] = cache[k]
             /\ last'.ret = Cardinality((DOMAIN cache) \ (DOMAIN cache')) ]_vars

\* ------------------------------------------------------------------ C11
\* C11: invalidate(pattern), for a pattern without "*", returns 1 and removes
\* the entry whose key equals the pattern from the mapping and the ledger when
\* that key is present, fresh or stale; returns 0 and changes neither when it
\* is absent; no other entry and no other ledger position is affected.
C11_ExactInvalidate ==
    [][ \A p \in Patterns :
          (~HasStar(p) /\ Invalidate(p)) =>
             /\ ~last'.threw
             /\ last'.ret = (IF Present(p) THEN 1 ELSE 0)
             /\ DOMAIN cache' = (DOMAIN cache) \ {p}
             /\ \A k \in DOMAIN cache' : cache'[k] = cache[k]
             /\ accessOrder' = SelectSeq(accessOrder, LAMBDA x : x # p)
             /\ ~Present(p) => (cache' = cache /\ accessOrder' = accessOrder) ]_vars

\* An exact invalidate has just removed one key, at a time when another entry,
\* which it left in place, is stale.
C11_Witness ==
    /\ last.op = "invalidate" /\ ~last.ok /\ last.ret = 1
    /\ Cardinality(last.removed) = 1
    /\ \E k \in DOMAIN cache : StaleNow(k)
    /\ Len(accessOrder) = Cardinality(DOMAIN cache)

\* ------------------------------------------------------------------ C12
\* C12: cleanupExpired removes from the mapping and the ledger exactly the
\* entries whose expiresAt is earlier than the current time, keeps every fresh
\* entry with its value, its expiry and its place relative to the other kept
\* keys of the ledger, and returns the number of entries removed; stats taken
\* right afterwards counts no expired entry.
C12_CleanupRemovesExactlyStale ==
    [][ last'.op = "cleanupExpired" =>
          LET expired == {k \in DOMAIN cache : cache[k].expiresAt < now}
          IN  /\ DOMAIN cache' = (DOMAIN cache) \ expired
              /\ \A k \in DOMAIN cache' : cache'[k] = cache[k]
              /\ accessOrder' = SelectSeq(accessOrder, LAMBDA x : x \notin expired)
              /\ last'.ret = Cardinality(expired)
              /\ getCacheStats(cache', accessOrder', now', maxEntries').ret.expiredEntries = 0
      ]_vars

\* A sweep has just removed an entry and kept one that expires at this very
\* time.
C12_Witness ==
    /\ last.op = "cleanupExpired" /\ last.ret >= 1
    /\ Cardinality(last.removed) = last.ret
    /\ \E k \in DOMAIN cache : cache[k].expiresAt = now

\* ------------------------------------------------------------------ C13
\* C13: clear returns the number of entries held just before the call, fresh
\* and stale alike, and leaves the mapping and the ledger empty.
C13_ClearEmptiesAndCounts ==
    [][ last'.op = "clear" =>
          /\ last'.ret = Cardinality(DOMAIN cache)
          /\ last'.ret = Cardinality({k \in Keys : HasNow(k)})
                           + Cardinality({k \in Keys : StaleNow(k)})
          /\ DOMAIN cache' = {}
          /\ accessOrder' = <<>> ]_vars

\* A clear has just removed two entries from a full store, after the clock
\* has passed the expiry of entries written with ttl 0.
C13_Witness ==
    /\ last.op = "clear" /\ last.ret = 2 /\ Cardinality(last.removed) = 2
    /\ now = MaxTime
    /\ DOMAIN cache = {} /\ accessOrder = <<>>

\* ------------------------------------------------------------------ C14
StatsNow == getCacheStats(cache, accessOrder, now, maxEntries).ret

\* C14: in every reachable state stats returns totalEntries = the number of
\* entries of the mapping, expiredEntries = the number of entries with current
\* time > expiresAt, activeEntries = totalEntries - expiredEntries and
\* maxEntries = the configured capacity; so 0 <= expiredEntries <= totalEntries
\* and activeEntries is the number of keys for which has is true.
C14_StatsSnapshot ==
    /\ StatsNow.totalEntries = Cardinality(DOMAIN cache)
    /\ StatsNow.expiredEntries = Cardinality({k \in DOMAIN cache : now > cache[k].expiresAt})
    /\ StatsNow.activeEntries = StatsNow.totalEntries - StatsNow.expiredEntries
    /\ StatsNow.maxEntries = maxEntries
    /\ 0 <= StatsNow.expiredEntries
    /\ StatsNow.expiredEntries <= StatsNow.totalEntries
    /\ StatsNow.activeEntries = Cardinality({k \in Keys : HasNow(k)})
    /\ last.op = "stats" => last.ret = StatsNow.totalEntries

\* stats has just been taken of a store that holds one expired entry and one
\* entry that expires at this very time.
C14_Witness ==
    /\ last.op = "stats" /\ last.ret = 2
    /\ StatsNow.expiredEntries = 1 /\ StatsNow.activeEntries = 1
    /\ \E k \in DOMAIN cache : cache[k].expiresAt = now

\* ------------------------------------------------------------------ C15
\* C15: every operation of the store (get, has, isStale, set, invalidate,
\* clear, cleanupExpired, stats) returns normally, for every key, pattern,
\* value and ttl, in every reachable state: no call ends with an exception.
C15_OperationsNeverThrow ==
    ~last.threw

\* ------------------------------------------------------------------ C16
\* What a successful result json leaves for the producer call rec, but for
\* the error cell: the store holds transform(json) under the url of the call,
\* expiring ttl after the time of storing; data is transform(json), isStale
\* and isLoading are false.
SuccessStored(rec, json) ==
    LET v == ApplyTransform(rec.transform, json)
    IN  /\ rec.url \in DOMAIN cache'
        /\ cache'[rec.url] = [data |-> v, expiresAt |-> now + rec.ttl]
        /\ hook'.data = v
        /\ ~hook'.isStale
        /\ ~hook'.isLoading

\* C16 as stated: a fetch cycle that invokes the producer and receives a
\* successful result r ends with the store holding transform(r) under the
\* cycle's key, with expiry time of storing + ttl, data = transform(r),
\* isStale = false, isLoading = false and error absent.
C16_SuccessEndsClean ==
    [][ (last'.op = "settle" /\ last'.ok) =>
          \A i \in 1..Len(inflight), json \in Bodies :
             SettleOk(i, json) =>
                /\ SuccessStored(inflight[i], json)
                /\ hook'.error = Null ]_vars

\* C16, amended: the same, with error left as it was when the result
\* arrived: absent unless another cycle of the same component has failed
\* since this cycle started.
C16_SuccessKeepsError ==
    [][ (last'.op = "settle" /\ last'.ok) =>
          \A i \in 1..Len(inflight), json \in Bodies :
             SettleOk(i, json) =>
                /\ SuccessStored(inflight[i], json)
                /\ hook'.error = hook.error
                /\ ~inflight[i].failedSince => hook'.error = Null ]_vars

\* A producer call has just succeeded at the last instant of the clock, for a
\* component with a transform of its own and ttl 1: its url is in the store,
\* data is shown, no error is set and nothing else is in flight.
C16_Witness ==
    /\ last.op = "settle" /\ last.ok
    /\ now = MaxTime /\ props.ttl = 1 /\ props.transform = "custom"
    /\ props.url \in DOMAIN cache
    /\ cache[props.url] = [data |-> hook.data, expiresAt |-> now + 1]
    /\ hook.error = Null /\ ~hook.isLoading /\ inflight = <<>>

\* ------------------------------------------------------------------ C17
\* The step is a non-forced fetch cycle (the effect) of an enabled component
\* whose url has an entry in the store that is fresh at every reading of the
\* clock in the cycle, the last one included.
FreshHitCycle ==
    /\ last'.op = "effect"
    /\ props.enabled /\ props.url # NoUrl
    /\ HasNow(props.url)
    /\ now' <= cache[props.url].expiresAt

\* C17: a non-forced fetch cycle for a key whose store entry is fresh sets
\* data to the cached value and isLoading to false and invokes no producer:
\* the producer calls in flight are the same after it.
C17_FreshHitNoProducer ==
    [][ FreshHitCycle =>
          /\ hook'.data = cache[props.url].data
          /\ ~hook'.isLoading
          /\ inflight' = inflight ]_vars

\* ------------------------------------------------------------------ C18
\* C18: when the producer call of a fetch cycle fails, the cycle sets error
\* to the failure and isLoading to false and leaves data as it was: neither
\* the step that starts the producer call nor the step in which it fails
\* changes the data shown.
C18_FailureKeepsData ==
    [][ /\ (last'.op = "settle" /\ ~last'.ok) =>
              /\ hook'.error = Failure
              /\ hook'.data = hook.data
              /\ ~hook'.isLoading
        /\ (last'.op \in {"refetch", "effect"} /\ ~last'.ok /\ last'.started = 1) =>
              hook'.data = hook.data ]_vars

\* A producer call has just failed for a component that shows a value fetched
\* earlier: the value is still shown, next to the error.
C18_Witness ==
    /\ last.op = "settle" /\ ~last.ok
    /\ hook.data # Null /\ hook.error = Failure /\ ~hook.isLoading
    /\ props.url \in DOMAIN cache /\ cache[props.url].data = hook.data

\* ------------------------------------------------------------------ C20
\* C20: the component starts a fetch cycle of its own (the effect runs) only
\* after its mount, after a render with a new url and after a render in which
\* enabled went from false to true; a render in which only the identity of
\* fetchOptions or transform changed, or one caused by a state cell of the
\* component, schedules no effect and so starts no cycle and no producer call.
C20_CyclesOnlyOnKeyOrEnable ==
    /\ last.op = "effect" => last.cause \in {"mount", "key", "enabled"}
    /\ (last.op = "render" /\ last.cause \in {"state", "parent"}) => ~effectPending

\* ------------------------------------------------------------------ C19
\* C19: with a producer that always fails and an empty cache, an enabled
\* component whose url stays the same and whose refetch() is never called
\* reaches a final state with isLoading = false, error = the failure and data
\* unchanged (absent), and no producer call is started after it: from some
\* point on nothing is in flight and the state stays as it is.
C19_FailingProducerSettles ==
    <>[](/\ inflight = <<>>
         /\ ~hook.isLoading
         /\ hook.error = Failure
         /\ hook.data = Null)

\* ------------------------------------------------------------------ C21
\* C21: in a non-forced fetch cycle (the effect) of a component configured
\* with refetchOnStale, when the store's entry for the url is stale at the
\* moment of the staleness check (the entry that the lookup left in the store
\* is past its expiry at the time of the checkStale of line 249, the last
\* reading of the clock in the cycle), the cached value is
\* delivered as data with isLoading false, and one producer call for the url
\* is started in the background and is in flight when the cycle returns.
C21_StaleHitRevalidates ==
    [][ (last'.op = "effect" /\ props.enabled /\ props.url # NoUrl
            /\ props.refetchOnStale) =>
          LET g == getCache(cache, accessOrder, now, props.url)
          IN  isStale(g.cache, g.order, now', props.url).ret =>
                 /\ hook'.data = cache[props.url].data
                 /\ ~hook'.isLoading
                 /\ Len(inflight') = Len(inflight) + 1
                 /\ SubSeq(inflight', 1, Len(inflight)) = inflight
                 /\ inflight'[Len(inflight')].url = props.url
                 /\ props.url \in DOMAIN cache'
                 /\ cache'[props.url] = cache[props.url] ]_vars

\* A non-forced cycle has just served the cached value of an entry that went
\* stale between the lookup and the staleness check, and started the
\* background call: the value is shown as stale, not loading, and the entry
\* is still in the store.
C21_Witness ==
    /\ last.op = "effect" /\ last.ok /\ last.started = 1
    /\ props.refetchOnStale
    /\ StaleNow(props.url)
    /\ hook.data = cache[props.url].data /\ hook.isStale /\ ~hook.isLoading
    /\ Len(inflight) >= 1 /\ inflight[Len(inflight)].url = props.url

\* ------------------------------------------------------------------ C22
\* C22 as stated: in every reachable state in which a producer call started
\* by the component has not settled yet, isLoading is true, also when several
\* cycles of the component overlap.
C22_LoadingWhileInFlight ==
    inflight # <<>> => hook.isLoading

\* The step ends a fetch cycle of the component: a producer call settles, the
\* cache answers a non-forced cycle, or a cycle finds the component disabled
\* or without url.
CycleEnds ==
    \/ last'.op = "settle"
    \/ last'.op = "effect" /\ last'.ok
    \/ last'.op \in {"effect", "refetch"} /\ (~props.enabled \/ props.url = NoUrl)

\* C22, amended: a miss or forced cycle that starts a producer call turns
\* isLoading on, and while a producer call is in flight isLoading goes off
\* only in a step that ends a fetch cycle of the component.  With overlapping
\* cycles, or after a cache hit that starts a background call, isLoading can
\* be false while a call is in flight.
C22_LoadingUntilACycleEnds ==
    [][ /\ (last'.op \in {"effect", "refetch"} /\ ~last'.ok /\ last'.started = 1)
              => hook'.isLoading
        /\ (inflight # <<>> /\ hook.isLoading /\ ~hook'.isLoading) => CycleEnds ]_vars

\* A forced cycle has just started the only producer call in flight for a
\* component that shows a value and was not loading before: isLoading is on.
C22_Witness ==
    /\ last.op = "refetch" /\ last.started = 1
    /\ Len(inflight) = 1 /\ hook.isLoading /\ hook.data # Null

\* ------------------------------------------------------------------ C23
\* C23: a producer call that settles, successfully or not, after its
\* component has been unmounted updates no state of the component: a step in
\* which a call settles while the component is unmounted leaves data, error,
\* isLoading and isStale as they were.
C23_NoUpdateAfterUnmount ==
    [][ (~mounted /\ ~mounted' /\ last'.op = "settle") => hook' = hook ]_vars

\* ------------------------------------------------------------------ C24
\* C24: while a producer call for a url is in flight, a further non-forced
\* fetch cycle for the same url starts no second producer call: of the calls
\* in flight that non-forced cycles started (here all of them), no two are
\* for the same url.
C24_OneRequestPerKey ==
    \A i, j \in 1..Len(inflight) :
        i # j => inflight[i].url # inflight[j].url

\* ------------------------------------------------------------------ C25
\* C25: when producer calls for the same url overlap, each successful one
\* writes the store when it completes, and nothing else writes it.  A step
\* that is not the success of a call writes no entry: the entries it leaves
\* are as they were.  The step in which a call succeeds, the one that
\* completes last included and whether the call was started before the
\* others or after them, takes that call out of the calls in flight, writes
\* no entry but that of the call's url, and leaves under that url the
\* transformed body the call delivers (the value the component is handed),
\* expiring the call's ttl from now.  So once all have settled the entry
\* holds the transformed result of the successful call that completed last.
C25_LastWriteWins ==
    [][ /\ (cache' # cache /\ ~(last'.op = "settle" /\ last'.ok)) =>
              \A u \in DOMAIN cache' : u \in DOMAIN cache /\ cache'[u] = cache[u]
        /\ (last'.op = "settle" /\ last'.ok) =>
              \E i \in 1..Len(inflight), json \in Bodies :
                 /\ inflight' = RemoveAt(inflight, i)
                 /\ ~TransformThrows(inflight[i].transform, json)
                 /\ hook'.data = ApplyTransform(inflight[i].transform, json)
                 /\ \A u \in DOMAIN cache' \ {inflight[i].url} :
                       u \in DOMAIN cache /\ cache'[u] = cache[u]
                 /\ inflight[i].url \in DOMAIN cache'
                 /\ cache'[inflight[i].url] =
                       [data |-> ApplyTransform(inflight[i].transform, json),
                        expiresAt |-> now + inflight[i].ttl] ]_vars

\* All the overlapping producer calls for the url of the component have
\* settled: the one that completed last has just succeeded, after another
\* call for the url that was in flight with it had stored its result, and
\* the entry of the url is the one the last call wrote.
C25_Witness ==
    /\ last.op = "settle" /\ last.ok /\ last.cause = "overlap"
    /\ inflight = <<>>
    /\ props.url \in DOMAIN cache
    /\ cache[props.url].data = hook.data
    /\ cache[props.url].expiresAt = now + props.ttl

\* ------------------------------------------------------------------ C26
\* C26: no fetch cycle lets a failure escape: when the producer rejects or
\* answers with a non-OK response, and when the transform throws, the promise
\* of the cycle completes normally and the failure is in the error cell when
\* it does; a cycle that succeeds does not throw either.
C26_FailuresAreCaught ==
    last.op = "settle" =>
        /\ last.cause # "escaped"
        /\ ~last.ok => /\ last.cause \in {"producer", "transform"}
                       /\ hook.error = Failure

\* The transform of a cycle has just thrown on the body of an OK response:
\* the failure is in the error cell, isLoading is off and nothing was stored.
C26_Witness ==
    /\ last.op = "settle" /\ ~last.ok /\ last.cause = "transform"
    /\ hook.error = Failure /\ ~hook.isLoading
    /\ cache = [x \in {} |-> 0] /\ inflight = <<>>

\* ------------------------------------------------------------------ C27
\* C27: when enabled is false or no url is configured, a fetch cycle, forced
\* (refetch) or not (the effect), sets isLoading to false, leaves data, error,
\* isStale and the store as they were and starts no producer call.
C27_DisabledCycleIsNoOp ==
    [][ (last'.op \in {"effect", "refetch"}
            /\ (~props.enabled \/ props.url = NoUrl)) =>
          /\ ~hook'.isLoading
          /\ hook'.data = hook.data
          /\ hook'.error = hook.error
          /\ hook'.isStale = hook.isStale
          /\ cache' = cache
          /\ accessOrder' = accessOrder
          /\ inflight' = inflight ]_vars

\* A forced cycle has just run for a component whose url was taken away
\* while it showed a fetched value and a later call of it was in flight: the
\* value is still shown, the entry is in the store, the call is in flight
\* and isLoading is off.
C27_Witness ==
    /\ last.op = "refetch" /\ props.url = NoUrl /\ props.enabled
    /\ hook.data # Null /\ ~hook.isLoading
    /\ FirstUrl \in DOMAIN cache /\ Len(inflight) = 1

\* The effect has just run for a component that was disabled while it showed
\* a fetched value next to the error of a later cycle: both are still shown.
C27_WitnessDisabled ==
    /\ last.op = "effect" /\ ~props.enabled /\ props.url # NoUrl
    /\ hook.data # Null /\ hook.error = Failure /\ ~hook.isLoading

\* ------------------------------------------------------------------ C28
\* C28: refetch() on an enabled component with a url always starts a producer
\* call for the url, also when the store holds a fresh entry for it, and does
\* not read the cache first: the Map and the ledger are as they were (no
\* stale entry removed, no key moved to the tail).
C28_RefetchSkipsCache ==
    [][ (last'.op = "refetch" /\ props.enabled /\ props.url # NoUrl) =>
          /\ Len(inflight') = Len(inflight) + 1
          /\ SubSeq(inflight', 1, Len(inflight)) = inflight
          /\ inflight'[Len(inflight')].url = props.url
          /\ hook'.isLoading
          /\ cache' = cache
          /\ accessOrder' = accessOrder ]_vars

\* refetch() has just started a producer call for a url whose entry is fresh
\* and is not the most recently used of the two entries in the store.
C28_Witness ==
    /\ last.op = "refetch" /\ last.started = 1
    /\ HasNow(props.url)
    /\ Len(accessOrder) = 2 /\ accessOrder[1] = props.url
    /\ inflight[Len(inflight)].url = props.url

\* ------------------------------------------------------------------ C29
\* C29: the provider's timer is armed, so that it runs cleanupExpired again
\* and again, for as long as the provider is mounted, and is cancelled by the
\* teardown of the provider: a run of cleanupExpired that the timer triggers
\* takes place under a mounted provider only, and after the teardown the
\* timer is not armed.
C29_TimerWhileMounted ==
    /\ (provider = "mounted") <=> interval
    /\ last.op = "sweep" => provider = "mounted"

\* The provider has been torn down with a producer call in flight, the result
\* of the call was stored afterwards and has expired: no sweep removes it.
C29_Witness ==
    /\ provider = "unmounted" /\ ~interval
    /\ last.op = "tick"
    /\ StaleNow(FirstUrl)

\* The timer has just fired under a mounted provider and cleanupExpired has
\* removed the only entry of the store.
C29_WitnessSweep ==
    /\ last.op = "sweep" /\ last.ok
    /\ provider = "mounted" /\ interval
    /\ cache = [x \in {} |-> 0]

\* ------------------------------------------------------------------ C30
\* C30: a component that calls useDataCache or useCachedFetch outside a
\* DataCacheProvider fails at once, in its first render, with an error: it
\* gets no store and no state cells, is not mounted, and no cache operation
\* and no producer call takes place for it.
C30_OutsideProviderThrows ==
    provider = "none" =>
        /\ useDataCache(provider).threw
        /\ last.op = "render" => last.cause = "threw"
        /\ DOMAIN hook = {} /\ ~mounted /\ ~effectPending
        /\ inflight = <<>>
        /\ cache = [x \in {} |-> 0] /\ accessOrder = <<>>

\* React has just rendered the component outside a provider, and the render
\* threw.
C30_Witness ==
    /\ provider = "none"
    /\ last.op = "render" /\ last.cause = "threw"
    /\ DOMAIN hook = {} /\ ~mounted

\* ------------------------------------------------------------------ C31
\* C31: in every reachable state the access-order ledger lists the present
\* keys in increasing order of the time of their most recent set or fresh
\* get, most recent last.  recency is kept by that rule alone: a set or a
\* fresh get moves its key to the tail, and every key that leaves the Map
\* (get on a stale entry, invalidate, clear, cleanupExpired, eviction) is
\* taken out with the order of the others unchanged.
C31_LedgerIsRecencyOrder ==
    accessOrder = recency

\* A fresh get has just moved the key that was set first behind the key that
\* was set after it.
C31_Witness ==
    /\ last.op = "get" /\ last.ret # Null
    /\ Len(accessOrder) = 2 /\ accessOrder[2] = last.key
    /\ cache[accessOrder[1]].expiresAt > cache[accessOrder[2]].expiresAt

\* ------------------------------------------------------------------ C32
\* C32: an entry written by set at time t with ttl d >= 0, or with the
\* provider's default TTL when the call passes no ttl, gets expiresAt = t + d;
\* at every time up to and including its expiresAt, has(key) is true and
\* get(key) returns its value (with d = 0 the entry is fresh at time t), and
\* at every later time, while the entry remains, isStale(key) is true.
C32_FreshUntilExpiry ==
    /\ last.op = "set" =>
          /\ Present(last.key)
          /\ cache[last.key].data = last.data
          /\ cache[last.key].expiresAt =
                now + (IF last.ok THEN defaultTTL ELSE last.ttl)
    /\ \A k \in DOMAIN cache :
          /\ now <= cache[k].expiresAt =>
                /\ HasNow(k) /\ GetNow(k) = cache[k].data /\ ~StaleNow(k)
          /\ now > cache[k].expiresAt =>
                /\ StaleNow(k) /\ ~HasNow(k) /\ GetNow(k) = Null

\* A set with ttl 0 has just written an entry at a time later than 0: the
\* entry expires at that time and is fresh.
C32_Witness ==
    /\ last.op = "set" /\ ~last.ok /\ last.ttl = 0 /\ now > 0
    /\ cache[last.key].expiresAt = now
    /\ HasNow(last.key) /\ GetNow(last.key) = last.data

\* A set without ttl at the last instant of the clock has just written an
\* entry that expires one default TTL later.
C32_WitnessDefault ==
    /\ last.op = "set" /\ last.ok /\ now = MaxTime
    /\ cache[last.key].expiresAt = now + defaultTTL
    /\ HasNow(last.key)

\* An entry written with ttl 0 at time 0 is stale one tick later.
C32_WitnessStale ==
    /\ last.op = "tick" /\ now = 1
    /\ \E k \in DOMAIN cache : cache[k].expiresAt = 0 /\ StaleNow(k)

\* ------------------------------------------------------------------ C33
\* C33: a fetch cycle whose producer call fails (a rejection, a non-OK
\* response, a transform that throws) leaves the Map and the ledger of the
\* store exactly as they were when the call settled; a forced cycle that
\* fails keeps the entry of its url, value and expiry.
C33_FailureKeepsStore ==
    [][ (last'.op = "settle" /\ ~last'.ok) =>
          /\ cache' = cache
          /\ accessOrder' = accessOrder ]_vars

\* The transform of a cycle has just thrown while the store holds a fresh
\* entry for the url of the component: the entry is still there and fresh.
C33_Witness ==
    /\ last.op = "settle" /\ ~last.ok /\ last.cause = "transform"
    /\ HasNow(props.url)
    /\ hook.error = Failure

\* ------------------------------------------------------------------ C34
\* C34: after the url of the component has changed from K1 to K2 while a
\* producer call for K1 is in flight, each value fetched is stored in the
\* cache under the url it was fetched for, and once all calls have settled
\* data holds the value obtained for the current url K2, which is the value
\* the store holds for K2, never the value fetched for K1.
C34_DataIsForCurrentKey ==
    [][ (last'.op = "settle" /\ last'.ok) =>
          \A i \in 1..Len(inflight), json \in Bodies :
             SettleOk(i, json) =>
                /\ inflight[i].url \in DOMAIN cache'
                /\ cache'[inflight[i].url].data =
                      ApplyTransform(inflight[i].transform, json)
                /\ inflight' = <<>> =>
                      /\ props.url \in DOMAIN cache'
                      /\ hook'.data = cache'[props.url].data ]_vars

\* ------------------------------------------------------------------ C35
\* C35: a non-forced fetch cycle that is answered by the cache changes only
\* data, isLoading and isStale and leaves error as it was; an error that is
\* set is cleared only by a cycle that invokes the producer (a miss, a
\* refetch, or the background fetch a stale hit starts), so the error of an
\* earlier failed cycle stays next to the cached data until then.
C35_HitLeavesError ==
    [][ /\ (last'.op = "effect" /\ last'.ok /\ last'.started = 0) =>
              /\ hook'.error = hook.error
              /\ hook'.data = getCache(cache, accessOrder, now, props.url).ret
              /\ ~hook'.isLoading
              /\ inflight' = inflight
        /\ (hook.error # Null /\ hook'.error = Null) =>
              /\ last'.op \in {"effect", "refetch"}
              /\ last'.started > 0 ]_vars

\* A cache hit has just been shown next to the error of an earlier failure.
C35_Witness ==
    /\ last.op = "effect" /\ last.ok /\ last.started = 0
    /\ hook.error = Failure
    /\ hook.data # Null
    /\ ~hook.isLoading

\* ------------------------------------------------------------------ C36
\* C36: when the cache lookup and the staleness check of a fetch cycle happen
\* at the same instant, the isStale field the hook returns is false in every
\* reachable state: a hit sets it from the store's isStale right after a get
\* that found the entry fresh, a successful fetch sets it to false, and a get
\* removes an expired entry instead of returning it.
C36_IsStaleNeverTrue == ~hook.isStale

\* A hit at the last instant at which the entry is fresh.
C36_Witness ==
    /\ last.op = "effect" /\ last.ok
    /\ now > 0
    /\ props.url \in DOMAIN cache
    /\ cache[props.url].expiresAt = now
    /\ hook.data = cache[props.url].data

\* ------------------------------------------------------------------ C37
\* C37: in every state of the AuthProvider in which the session effect is not
\* due, after any sequence of session restores, signIn, signOut and renders
\* with another allowedDomains, a user that is set has an email whose domain
\* is in the current allowedDomains; and a signIn with a credential whose
\* email domain is missing or not allowed leaves user and the stored session
\* as they were and sets authError.
C37_UserDomainAllowed ==
    [][ /\ (auth'.user # NullUser /\ ~auth'.effectPending) =>
              DomainAllowed(EmailDomain(auth'.user), auth'.allowedDomains)
        /\ \A credential \in Credentials :
              ( /\ SignIn(credential)
                /\ credential.valid
                /\ ~DomainAllowed(EmailDomain(credential.payload),
                                  auth.allowedDomains) ) =>
                 /\ auth'.user = auth.user
                 /\ auth'.storage = auth.storage
                 /\ auth'.authError = AccessRestricted ]_vars

====
